---- MODULE Spec2Model ----
(***************************************************************************)
(* Market-state engine of the trading simulator: the price ledger, the    *)
(* chance ledger, the session clock, the account store, the trade         *)
(* executor and the settlement sweeper of the server in                   *)
(* src/unnamed/part_004 (lines 1661-3380), and, under the prefix Legacy_, *)
(* of its earlier copy in src/components/SyntheticTradeCard.tsx.          *)
(*                                                                         *)
(* Numbers.  The server computes in IEEE doubles and rounds what it       *)
(* stores with toFixed.  The model keeps every stored number as an        *)
(* integer count of its last stored digit and rounds like toFixed (to     *)
(* the nearest, ties away from zero) on the exact value:                  *)
(*   ticker price            1e-3 USD   (toFixed(3))                      *)
(*   chance                  1e-2 %     (toFixed(2))                      *)
(*   contract price          1e-4 USD   (chance / 100)                    *)
(*   contracts               1e-4       (toFixed(4))                      *)
(*   synthetic units         1e-6       (toFixed(6))                      *)
(*   investedAmount, order amount, realizedPnl   1e-4 USD (toFixed(4))    *)
(*   cashBalance, portfolioPnL                   1e-2 USD (toFixed(2))    *)
(*   a request's USD amount  1e-6 USD   (any finite number is accepted)   *)
(* The price draws of the specifications keep clear of exact rounding    *)
(* ties, which the double product would decide.                           *)
(* Wall-clock fields that no rule reads (createdAt, updatedAt) and the    *)
(* activity feed are left out.                                            *)
(***************************************************************************)
EXTENDS Integers, Sequences, FiniteSets, TLC

(***************************************************************************)
(* Arithmetic on 32-bit safe integers.                                     *)
(***************************************************************************)
Max(a, b) == IF a >= b THEN a ELSE b
Min(a, b) == IF a <= b THEN a ELSE b
Abs(a) == IF a >= 0 THEN a ELSE -a

\* Math.max(min, Math.min(max, value))
clamp(value, lo, hi) == Max(lo, Min(hi, value))

\* <<q, r>> with a * b = q * d + r and 0 <= r < d, for a, b >= 0 and d > 0,
\* computed without forming a * b (which may not fit 32 bits).
RECURSIVE MulDiv(_, _, _)
MulDiv(a, b, d) ==
  IF b = 0 THEN <<0, 0>>
  ELSE LET h == MulDiv(a, b \div 2, d)
           t == 2 * h[2] + (b % 2) * (a % d)
       IN  <<2 * h[1] + (b % 2) * (a \div d) + (t \div d), t % d>>

\* a * b / d rounded to the nearest integer, ties up (a, b >= 0, d > 0).
MulDivRound(a, b, d) ==
  LET m == MulDiv(a, b, d) IN m[1] + (IF 2 * m[2] >= d THEN 1 ELSE 0)

\* n / d rounded to the nearest integer, ties away from zero (d > 0):
\* Number.prototype.toFixed on the exact quotient.
RoundDiv(n, d) ==
  IF n >= 0 THEN (n \div d) + (IF 2 * (n % d) >= d THEN 1 ELSE 0)
  ELSE -(((-n) \div d) + (IF 2 * ((-n) % d) >= d THEN 1 ELSE 0))

\* a * b >= c * d and a * b > c * d for a, b, c >= 0, d > 0, without overflow.
MulGeq(a, b, c, d) == MulDiv(a, b, d)[1] >= c
MulGt(a, b, c, d) ==
  LET m == MulDiv(a, b, d) IN m[1] > c \/ (m[1] = c /\ m[2] > 0)

\* W + n1/d1 - n2/d2 rounded to the nearest integer, ties away from zero,
\* for 0 <= n1 < d1 and 0 <= n2 < d2.
RoundMixed(W, n1, d1, n2, d2) ==
  LET borrow == MulGt(n2, d1, n1, d2)            \* n2/d2 > n1/d1
      F == IF borrow THEN W - 1 ELSE W           \* floor of the value
      \* the fractional part h = value - F, compared with 1/2
      hGeqHalf == IF borrow
                  THEN MulGeq(2 * n1 + d1, d2, n2, 2 * d1)
                  ELSE 2 * n1 >= d1 /\ MulGeq(2 * n1 - d1, d2, n2, 2 * d1)
      hGtHalf == IF borrow
                 THEN MulGt(2 * n1 + d1, d2, n2, 2 * d1)
                 ELSE 2 * n1 >= d1 /\ MulGt(2 * n1 - d1, d2, n2, 2 * d1)
  IN  IF F >= 0 THEN F + (IF hGeqHalf THEN 1 ELSE 0)
      ELSE F + (IF hGtHalf THEN 1 ELSE 0)

(***************************************************************************)
(* The fixed rosters (part_004:1676-1699).                                 *)
(***************************************************************************)
Tickers == {"DDR5", "DDR4"}
TickerOrder == <<"DDR5", "DDR4">>            \* Object.keys(BASE_TICKER_PRICES)
BASE_TICKER_PRICES == [DDR5 |-> 38067, DDR4 |-> 78409]
MarketIds == {"1", "2", "3", "4"}
MARKET_IDS_BY_TICKER == [DDR5 |-> <<"1", "2">>, DDR4 |-> <<"3", "4">>]
DEFAULT_MARKET_CHANCES ==
  [m \in MarketIds |->
     CASE m = "1" -> 6400 [] m = "2" -> 4200 [] m = "3" -> 7800 [] m = "4" -> 5200]
MARKET_DEFINITIONS ==
  [m \in MarketIds |->
     CASE m = "1" -> [category |-> "DDR5", period |-> "MONTHLY"]
       [] m = "2" -> [category |-> "DDR5", period |-> "DAILY"]
       [] m = "3" -> [category |-> "DDR4", period |-> "MONTHLY"]
       [] m = "4" -> [category |-> "DDR4", period |-> "DAILY"]]
DailyMarketIds == <<"2", "4">>               \* the literal ["2", "4"] of runSkipSessions
SESSION_SLOTS_MINUTES == <<8 * 60 + 30, 12 * 60, 15 * 60 + 30>>

PRICE_HISTORY_CAP == 100       \* priceHistory[ticker].slice(-100)
CHANCE_HISTORY_CAP == 160      \* chanceHistory[marketId].slice(-160)
ORDER_HISTORY_CAP == 500       \* orderHistory.slice(0, 500)
\* Variant: a DAILY lot settled one session early.
settleAfterTwoSessions == 3 - 1

SETTLE_AFTER_SESSIONS == 3     \* sessionsHeld < 3 keeps a DAILY lot open
MAX_SKIP_COUNT == 20           \* Math.min(20, count)
INITIAL_CASH == 100000         \* cashBalance: 1000, in cents
CHANCE_MIN == 100              \* clamp(.., 1, 99), in 1e-2 %
CHANCE_MAX == 9900
NEUTRAL_CHANCE == 5000         \* the daily reset to 50 and the "|| 50" fallback
PRICE_MIN == 100               \* clamp(probability, 0.01, 0.99), in 1e-4 USD
PRICE_MAX == 9900
\* Variant: a sell tolerance of half a contract.
looseSellEpsilon == 50 * 100

SELL_EPSILON == 100            \* 0.01 contracts, in 1e-4 contracts
SYNTH_EPS == 100               \* 1e-4 units, in 1e-6 units

(***************************************************************************)
(* The state.                                                              *)
(***************************************************************************)
VARIABLES
  pricesData,     \* [currentPrices, priceHistory]: centralPrices is its currentPrices
  chancesData,    \* [currentChances, chanceHistory]
  sessionState,   \* [skipSessionCount, priceToBeat, lastSessionAt, lastSessionSlotIndex]
  accountStore,   \* accountStore.accounts: guest id -> account, for the ids that exist
  disk,           \* the four JSON files: [prices, chances, session, accounts]
  batch,          \* the runSkipSessions call in progress, if any
  last,           \* the outcome of the last handler (its response and the locals it reports)
  client          \* one browser: where its "skip one session" action stands, its messages in flight

vars == <<pricesData, chancesData, sessionState, accountStore, disk, batch, last, client>>

centralPrices == pricesData.currentPrices

\* s.slice(-n) and s.slice(0, n)
SliceLast(s, n) == IF Len(s) <= n THEN s ELSE SubSeq(s, Len(s) - n + 1, Len(s))
SliceFirst(s, n) == IF Len(s) <= n THEN s ELSE SubSeq(s, 1, n)
LastOf(s) == s[Len(s)]

(***************************************************************************)
(* Chance ledger.                                                          *)
(***************************************************************************)
\* One market's share of updateChancesForTicker: direction is 1 or -1 and
\* magnitude the draw 2 + Math.random() * 4, in 1e-2 %.
\* Variant: the chance is recorded before it is clamped.
bumpChanceUnclamped(cd, marketId, direction, magnitude) ==
  LET current == IF cd.currentChances[marketId] = 0 THEN NEUTRAL_CHANCE
                 ELSE cd.currentChances[marketId]
      rounded == current + direction * magnitude
  IN  [currentChances |-> [cd.currentChances EXCEPT ![marketId] = rounded],
       chanceHistory |->
         [cd.chanceHistory EXCEPT
            ![marketId] = SliceLast(Append(@, rounded), CHANCE_HISTORY_CAP)]]

bumpChance(cd, marketId, direction, magnitude) ==
  LET current == IF cd.currentChances[marketId] = 0 THEN NEUTRAL_CHANCE
                 ELSE cd.currentChances[marketId]
      rounded == clamp(current + direction * magnitude, CHANCE_MIN, CHANCE_MAX)
  IN  [currentChances |-> [cd.currentChances EXCEPT ![marketId] = rounded],
       chanceHistory |->
         [cd.chanceHistory EXCEPT
            ![marketId] = SliceLast(Append(@, rounded), CHANCE_HISTORY_CAP)]]

\* updateChancesForTicker(ticker, priceDelta); coin is the direction drawn
\* when the price did not move, mags the magnitudes drawn for the ticker's
\* two markets.
updateChancesForTicker(cd, ticker, priceDelta, coin, mags) ==
  LET direction == IF priceDelta > 0 THEN 1 ELSE IF priceDelta < 0 THEN -1 ELSE coin
      ids == MARKET_IDS_BY_TICKER[ticker]
  IN  bumpChance(bumpChance(cd, ids[1], direction, mags[1]), ids[2], direction, mags[2])

(***************************************************************************)
(* Price ledger.  Raw prices are given in twentieths of 1e-3 USD, the unit *)
(* in which 0.95 * p and 1.05 * p are the integers 19 * p and 21 * p.      *)
(***************************************************************************)
\* The price addPriceEntry records for a raw incoming price.
boundedPrice(prev, base, incoming20) ==
  LET stepBounded == clamp(incoming20, 19 * prev, 21 * prev)
      baseBounded == clamp(stepBounded, 19 * base, 21 * base)
  IN  RoundDiv(baseBounded, 20)

\* Variant: a full history drops the entry just added.
addPriceEntryKeepingOldest(pd, cd, ticker, incoming20, source, at, coin, mags) ==
  LET base == BASE_TICKER_PRICES[ticker]
      prev == IF pd.currentPrices[ticker] = 0 THEN base ELSE pd.currentPrices[ticker]
      price == boundedPrice(prev, base, incoming20)
      entry == [price |-> price, timestamp |-> at, source |-> source]
  IN  <<[currentPrices |-> [pd.currentPrices EXCEPT ![ticker] = price],
         priceHistory |->
           [pd.priceHistory EXCEPT
              ![ticker] = SliceFirst(Append(@, entry), PRICE_HISTORY_CAP)]],
        updateChancesForTicker(cd, ticker, price - prev, coin, mags)>>

\* addPriceEntry(ticker, incomingPrice, source, timestampOverride): the new
\* <<pricesData, chancesData>>.
addPriceEntry(pd, cd, ticker, incoming20, source, at, coin, mags) ==
  LET base == BASE_TICKER_PRICES[ticker]
      prev == IF pd.currentPrices[ticker] = 0 THEN base ELSE pd.currentPrices[ticker]
      price == boundedPrice(prev, base, incoming20)
      entry == [price |-> price, timestamp |-> at, source |-> source]
  IN  <<[currentPrices |-> [pd.currentPrices EXCEPT ![ticker] = price],
         priceHistory |->
           [pd.priceHistory EXCEPT
              ![ticker] = SliceLast(Append(@, entry), PRICE_HISTORY_CAP)]],
        updateChancesForTicker(cd, ticker, price - prev, coin, mags)>>

\* getNextSessionPrice(ticker): shock is the clamped percentage step
\* randomShock + meanReversion in units of 5 % (-1, 0 or 1).
getNextSessionPrice(pd, ticker, shock) ==
  LET base == BASE_TICKER_PRICES[ticker]
      current == IF pd.currentPrices[ticker] = 0 THEN base ELSE pd.currentPrices[ticker]
  IN  clamp((20 + shock) * current, 19 * base, 21 * base)

(***************************************************************************)
(* Accounts.                                                               *)
(***************************************************************************)
buildDefaultPredictionState ==
  [realizedPnL |-> 0, nextPositionId |-> 1, nextOrderId |-> 1,
   openPositions |-> <<>>, orderHistory |-> <<>>]

buildDefaultSyntheticState ==
  [nextPositionId |-> 1, nextOrderId |-> 1,
   openPositions |-> <<>>, orderHistory |-> <<>>]

buildDefaultGuestAccount ==
  [username |-> "DEMO", cashBalance |-> INITIAL_CASH, portfolioPnL |-> 0,
   synthetic |-> buildDefaultSyntheticState,
   prediction |-> buildDefaultPredictionState]

\* array.filter(keep)
FilterSeq(s, keep(_)) == SelectSeq(s, keep)

\* array.reduce((sum, x) => sum + f(x), 0)
SumSeq(s, f(_)) ==
  LET sum[i \in 0..Len(s)] == IF i = 0 THEN 0 ELSE sum[i - 1] + f(s[i])
  IN  sum[Len(s)]

\* array.reduce((max, x) => Math.max(max, x.id), 0)
MaxId(s) ==
  LET ids == {s[i].id : i \in 1..Len(s)} \cup {0}
  IN  CHOOSE m \in ids : \A id \in ids : id <= m

\* sanitizeSyntheticState on a state the server wrote: lots whose units,
\* entry price or invested amount are not positive are dropped, the id
\* counters are pushed past the ids in use, the order history is cut.
sanitizeSyntheticState(raw) ==
  LET openPositions ==
        FilterSeq(raw.openPositions,
                  LAMBDA p : p.units > 0 /\ p.avgEntryPrice > 0 /\ p.investedAmount > 0)
  IN  [nextPositionId |-> Max(raw.nextPositionId, MaxId(openPositions) + 1),
       nextOrderId |-> Max(raw.nextOrderId, MaxId(raw.orderHistory) + 1),
       openPositions |-> openPositions,
       orderHistory |-> SliceLast(raw.orderHistory, ORDER_HISTORY_CAP)]

\* getSyntheticQuote(ticker).ask = .bid = .mark
getSyntheticQuote(pd, ticker) ==
  IF pd.currentPrices[ticker] = 0 THEN BASE_TICKER_PRICES[ticker]
  ELSE pd.currentPrices[ticker]

sanitizePredictionState(raw) ==
  LET openPositions ==
        FilterSeq(raw.openPositions,
                  LAMBDA p : p.contracts > 0 /\ p.avgEntryPrice > 0 /\ p.investedAmount > 0)
  IN  [realizedPnL |-> raw.realizedPnL,
       nextPositionId |-> Max(raw.nextPositionId, MaxId(openPositions) + 1),
       nextOrderId |-> Max(raw.nextOrderId, MaxId(raw.orderHistory) + 1),
       openPositions |-> openPositions,
       orderHistory |-> SliceLast(raw.orderHistory, ORDER_HISTORY_CAP)]

\* Variant: the NO side is quoted at the chance itself, like the YES side.
contractPriceOfChance(cd, marketId, outcome) ==
  LET chance == IF cd.currentChances[marketId] = 0 THEN NEUTRAL_CHANCE
                ELSE cd.currentChances[marketId]
  IN  clamp(chance, PRICE_MIN, PRICE_MAX)

\* getCurrentContractPrice(marketId, outcome), in 1e-4 USD
getCurrentContractPrice(cd, marketId, outcome) ==
  LET chance == IF cd.currentChances[marketId] = 0 THEN NEUTRAL_CHANCE
                ELSE cd.currentChances[marketId]
      probability == IF outcome = "YES" THEN chance ELSE 10000 - chance
  IN  clamp(probability, PRICE_MIN, PRICE_MAX)

\* recalculatePortfolioPnL(account): the unrealized PnL of the open lots at
\* the current contract prices and marks, to the cent.
recalculatePortfolioPnL(account, pd, cd) ==
  LET pv(p) == MulDiv(p.contracts, getCurrentContractPrice(cd, p.marketId, p.outcome), 10000)
      sv(p) == MulDiv(p.units, getSyntheticQuote(pd, p.ticker), 100000)
      pred == account.prediction.openPositions
      syn == account.synthetic.openPositions
      whole == SumSeq(pred, LAMBDA p : pv(p)[1] - p.investedAmount)
               + SumSeq(syn, LAMBDA p : sv(p)[1] - p.investedAmount)
      frac == 10 * SumSeq(pred, LAMBDA p : pv(p)[2]) + SumSeq(syn, LAMBDA p : sv(p)[2])
      n == whole + (frac \div 100000)          \* 1e-4 USD, plus (frac % 1e5) / 1e5
      cents == RoundMixed(n \div 100, (n % 100) * 100000 + (frac % 100000), 10000000, 0, 1)
  IN  [account EXCEPT !.portfolioPnL = cents]

\* ensureAccountShape(account)
ensureAccountShape(account, pd, cd) ==
  recalculatePortfolioPnL(
    [username |-> account.username,
     cashBalance |-> Max(0, account.cashBalance),
     portfolioPnL |-> account.portfolioPnL,
     synthetic |-> sanitizeSyntheticState(account.synthetic),
     prediction |-> sanitizePredictionState(account.prediction)], pd, cd)

\* appendOrderHistory(account, order)
appendOrderHistory(account, order) ==
  LET entry == [order EXCEPT !.id = account.prediction.nextOrderId]
  IN  [account EXCEPT
         !.prediction.nextOrderId = @ + 1,
         !.prediction.orderHistory = SliceFirst(<<entry>> \o @, ORDER_HISTORY_CAP)]

\* getOrCreateGuestAccount(guestId): the store after the call;
\* createdAccount(store, guestId) tells whether the call saves the store.
createdAccount(store, guestId) == guestId \notin DOMAIN store.accounts

getOrCreateGuestAccount(store, guestId, pd, cd) ==
  LET existing == IF createdAccount(store, guestId)
                  THEN ensureAccountShape(buildDefaultGuestAccount, pd, cd)
                  ELSE store.accounts[guestId]
      normalized == ensureAccountShape(existing, pd, cd)
  IN  [accounts |->
         [g \in DOMAIN store.accounts \cup {guestId} |->
            IF g = guestId THEN normalized ELSE store.accounts[g]]]

(***************************************************************************)
(* Money arithmetic of the executors.                                      *)
(***************************************************************************)
\* usdAmount > account.cashBalance (amount in 1e-6 USD, cash in cents)
\* Variant: the funds check reads the opening balance, not the current one.
exceedsOpeningBalance(amount, cash) == (amount \div 10000) > INITIAL_CASH

\* amount > account.cashBalance, amount in 1e-6 USD and cash in cents
exceedsCash(amount, cash) ==
  (amount \div 10000) > cash \/ ((amount \div 10000) = cash /\ amount % 10000 > 0)

\* parseFloat(Math.max(0, cash - amount).toFixed(2))
cashAfterDebit(cash, amount) ==
  IF exceedsCash(amount, cash) THEN 0
  ELSE cash - (amount \div 10000) - (IF amount % 10000 > 5000 THEN 1 ELSE 0)

\* parseFloat(Math.max(0, cash + amount).toFixed(2)), amount >= 0 in 1e-6 USD
cashAfterDeposit(cash, amount) ==
  cash + (amount \div 10000) + (IF amount % 10000 >= 5000 THEN 1 ELSE 0)

\* parseFloat(Math.max(0, cash + proceeds).toFixed(2)) for proceeds of
\* whole + f units of 1e-4 USD with 0 <= f < 1: f cannot reach the half cent.
cashAfterCredit(cash, whole) ==
  cash + (whole \div 100) + (IF whole % 100 >= 50 THEN 1 ELSE 0)

(***************************************************************************)
(* Prediction trades.                                                      *)
(***************************************************************************)
\* Variant: the lot a partial SELL rewrites loses its target and its opening session.
consumePredictionLotsRetargeted(positions, marketId, outcome, targetContracts) ==
  LET walk[i \in 0..Len(positions)] ==
        IF i = 0
        THEN [next |-> <<>>, remaining |-> targetContracts, soldContracts |-> 0,
              costWhole |-> 0, costNum |-> 0, costDen |-> 1]
        ELSE
          LET a == walk[i - 1]
              position == positions[i]
          IN  IF a.remaining <= 0 \/ position.marketId # marketId
                 \/ position.outcome # outcome
              THEN [a EXCEPT !.next = Append(@, position)]
              ELSE
                LET used == Min(a.remaining, position.contracts)
                    costPortion == MulDiv(position.investedAmount, used, position.contracts)
                    leftContracts == position.contracts - used
                    leftInvested ==
                      MulDivRound(position.investedAmount, leftContracts, position.contracts)
                    kept == [position EXCEPT
                               !.contracts = leftContracts,
                               !.investedAmount = leftInvested,
                               !.targetPrice = 0,
                               !.openedSession = 0,
                               !.avgEntryPrice =
                                 MulDivRound(position.investedAmount, 10000,
                                             position.contracts)]
                IN  [next |-> IF leftContracts > SELL_EPSILON
                              THEN Append(a.next, kept) ELSE a.next,
                     remaining |-> a.remaining - used,
                     soldContracts |-> a.soldContracts + used,
                     costWhole |-> a.costWhole + costPortion[1],
                     costNum |-> IF costPortion[2] > 0 THEN costPortion[2] ELSE a.costNum,
                     costDen |-> IF costPortion[2] > 0 THEN position.contracts
                                 ELSE a.costDen]
  IN  walk[Len(positions)]

\* Variant: the walk of a SELL takes lots of either outcome of the market.
consumePredictionLotsAnyOutcome(positions, marketId, outcome, targetContracts) ==
  LET walk[i \in 0..Len(positions)] ==
        IF i = 0
        THEN [next |-> <<>>, remaining |-> targetContracts, soldContracts |-> 0,
              costWhole |-> 0, costNum |-> 0, costDen |-> 1]
        ELSE
          LET a == walk[i - 1]
              position == positions[i]
          IN  IF a.remaining <= 0 \/ position.marketId # marketId
              THEN [a EXCEPT !.next = Append(@, position)]
              ELSE
                LET used == Min(a.remaining, position.contracts)
                    costPortion == MulDiv(position.investedAmount, used, position.contracts)
                    leftContracts == position.contracts - used
                    leftInvested ==
                      MulDivRound(position.investedAmount, leftContracts, position.contracts)
                    kept == [position EXCEPT
                               !.contracts = leftContracts,
                               !.investedAmount = leftInvested,
                               !.avgEntryPrice =
                                 MulDivRound(position.investedAmount, 10000,
                                             position.contracts)]
                IN  [next |-> IF leftContracts > SELL_EPSILON
                              THEN Append(a.next, kept) ELSE a.next,
                     remaining |-> a.remaining - used,
                     soldContracts |-> a.soldContracts + used,
                     costWhole |-> a.costWhole + costPortion[1],
                     costNum |-> IF costPortion[2] > 0 THEN costPortion[2] ELSE a.costNum,
                     costDen |-> IF costPortion[2] > 0 THEN position.contracts
                                 ELSE a.costDen]
  IN  walk[Len(positions)]

\* The forEach of the SELL branch over prediction.openPositions.  The cost
\* removed is costWhole + costNum / costDen units of 1e-4 USD: at most one
\* lot is consumed in part, and its share investedAmount * used / contracts
\* is the only one that is not a whole number of units.
consumePredictionLots(positions, marketId, outcome, targetContracts) ==
  LET walk[i \in 0..Len(positions)] ==
        IF i = 0
        THEN [next |-> <<>>, remaining |-> targetContracts, soldContracts |-> 0,
              costWhole |-> 0, costNum |-> 0, costDen |-> 1]
        ELSE
          LET a == walk[i - 1]
              position == positions[i]
          IN  IF a.remaining <= 0 \/ position.marketId # marketId
                 \/ position.outcome # outcome
              THEN [a EXCEPT !.next = Append(@, position)]
              ELSE
                LET used == Min(a.remaining, position.contracts)
                    costPortion == MulDiv(position.investedAmount, used, position.contracts)
                    leftContracts == position.contracts - used
                    leftInvested ==
                      MulDivRound(position.investedAmount, leftContracts, position.contracts)
                    kept == [position EXCEPT
                               !.contracts = leftContracts,
                               !.investedAmount = leftInvested,
                               !.avgEntryPrice =
                                 MulDivRound(position.investedAmount, 10000,
                                             position.contracts)]
                IN  [next |-> IF leftContracts > SELL_EPSILON
                              THEN Append(a.next, kept) ELSE a.next,
                     remaining |-> a.remaining - used,
                     soldContracts |-> a.soldContracts + used,
                     costWhole |-> a.costWhole + costPortion[1],
                     costNum |-> IF costPortion[2] > 0 THEN costPortion[2] ELSE a.costNum,
                     costDen |-> IF costPortion[2] > 0 THEN position.contracts
                                 ELSE a.costDen]
  IN  walk[Len(positions)]

matchingTotalContracts(account, marketId, outcome) ==
  SumSeq(FilterSeq(account.prediction.openPositions,
                   LAMBDA p : p.marketId = marketId /\ p.outcome = outcome),
         LAMBDA p : p.contracts)

\* What a rejected call returns: the account as getOrCreateGuestAccount left it.
rejected(account, error) ==
  [ok |-> FALSE, error |-> error, account |-> account,
   total |-> 0, sold |-> 0, costWhole |-> 0, costNum |-> 0, costDen |-> 1]

accepted(account, total, sold, costWhole, costNum, costDen) ==
  [ok |-> TRUE, error |-> "", account |-> account,
   total |-> total, sold |-> sold,
   costWhole |-> costWhole, costNum |-> costNum, costDen |-> costDen]

\* executePredictionTrade({account, side, marketId, outcome, amount, contracts});
\* amount in 1e-6 USD, contracts in 1e-4; a value that is not a finite number
\* is rejected like one that is not positive.
executePredictionTrade(account, side, marketId, outcome, amount, contracts, ss, pd, cd) ==
  IF marketId \notin MarketIds THEN rejected(account, "Invalid market id")
  ELSE IF outcome \notin {"YES", "NO"} THEN rejected(account, "Invalid outcome")
  ELSE
    LET market == MARKET_DEFINITIONS[marketId]
        price == getCurrentContractPrice(cd, marketId, outcome)
        prediction == account.prediction
    IN
    IF side = "BUY" THEN
      IF amount <= 0 THEN rejected(account, "Invalid buy amount")
      ELSE IF exceedsCash(amount, account.cashBalance)
      THEN rejected(account, "Insufficient cash balance")
      ELSE
        LET boughtContracts == MulDivRound(amount, 100, price)
            toBeat == IF ss.priceToBeat[market.category] # 0
                      THEN ss.priceToBeat[market.category]
                      ELSE pd.currentPrices[market.category]
            position == [id |-> prediction.nextPositionId,
                         marketId |-> marketId,
                         outcome |-> outcome,
                         contracts |-> boughtContracts,
                         avgEntryPrice |-> price,
                         investedAmount |-> RoundDiv(amount, 100),
                         targetPrice |-> toBeat,
                         openedSession |-> ss.skipSessionCount]
            order == [id |-> 0, type |-> "BUY", marketId |-> marketId,
                      outcome |-> outcome, contracts |-> boughtContracts,
                      price |-> price, amount |-> RoundDiv(amount, 100),
                      realizedPnl |-> 0, result |-> "",
                      session |-> ss.skipSessionCount, note |-> -1]
            bought == [account EXCEPT
                         !.prediction.nextPositionId = @ + 1,
                         !.prediction.openPositions = Append(@, position),
                         !.cashBalance = cashAfterDebit(@, amount)]
        IN  accepted(recalculatePortfolioPnL(appendOrderHistory(bought, order), pd, cd),
                     0, 0, 0, 0, 1)
    ELSE IF side = "SELL" THEN
      IF contracts <= 0 THEN rejected(account, "Invalid contracts to sell")
      ELSE
        LET total == matchingTotalContracts(account, marketId, outcome)
        IN
        IF contracts > total + SELL_EPSILON
        THEN rejected(account, "Not enough contracts to sell")
        ELSE
          LET w == consumePredictionLots(prediction.openPositions, marketId, outcome,
                                         Min(contracts, total))
              proceeds == MulDiv(w.soldContracts, price, 10000)
              realizedPnl == proceeds[1] - w.costWhole
              order == [id |-> 0, type |-> "SELL", marketId |-> marketId,
                        outcome |-> outcome, contracts |-> w.soldContracts,
                        price |-> price,
                        amount |-> proceeds[1] + (IF 2 * proceeds[2] >= 10000 THEN 1 ELSE 0),
                        realizedPnl |->
                          RoundMixed(realizedPnl, proceeds[2], 10000, w.costNum, w.costDen),
                        result |-> "",
                        session |-> ss.skipSessionCount, note |-> -1]
              sold == [account EXCEPT
                         !.prediction.openPositions = w.next,
                         !.cashBalance = cashAfterCredit(@, proceeds[1]),
                         !.prediction.realizedPnL =
                           RoundMixed(@ + realizedPnl, proceeds[2], 10000,
                                      w.costNum, w.costDen)]
          IN  IF w.soldContracts <= 0 \/ w.remaining > SELL_EPSILON
              THEN rejected(account, "Not enough contracts to sell")
              ELSE accepted(recalculatePortfolioPnL(appendOrderHistory(sold, order), pd, cd),
                            total, w.soldContracts, w.costWhole, w.costNum, w.costDen)
    ELSE rejected(account, "Invalid side")

(***************************************************************************)
(* Synthetic trades.  A SELL names a USD amount and the server divides it  *)
(* by the bid; the model takes the quotient requestedUnits (1e-6 units) as *)
(* the input, that is, SELL amounts of the form requestedUnits * bid.      *)
(***************************************************************************)
consumeSyntheticLots(positions, ticker, targetUnits) ==
  LET walk[i \in 0..Len(positions)] ==
        IF i = 0
        THEN [next |-> <<>>, remaining |-> targetUnits, soldUnits |-> 0,
              costWhole |-> 0, costNum |-> 0, costDen |-> 1]
        ELSE
          LET a == walk[i - 1]
              position == positions[i]
          IN  IF position.ticker # ticker \/ a.remaining <= 0
              THEN [a EXCEPT !.next = Append(@, position)]
              ELSE
                LET used == Min(a.remaining, position.units)
                    costPortion == MulDiv(position.investedAmount, used, position.units)
                    leftUnits == position.units - used
                    leftInvested ==
                      MulDivRound(position.investedAmount, leftUnits, position.units)
                    kept == [position EXCEPT
                               !.units = leftUnits,
                               !.investedAmount = leftInvested,
                               !.avgEntryPrice =
                                 MulDivRound(position.investedAmount, 1000000,
                                             position.units)]
                IN  [next |-> IF leftUnits > SYNTH_EPS
                              THEN Append(a.next, kept) ELSE a.next,
                     remaining |-> a.remaining - used,
                     soldUnits |-> a.soldUnits + used,
                     costWhole |-> a.costWhole + costPortion[1],
                     costNum |-> IF costPortion[2] > 0 THEN costPortion[2] ELSE a.costNum,
                     costDen |-> IF costPortion[2] > 0 THEN position.units ELSE a.costDen]
  IN  walk[Len(positions)]

totalOwnedUnits(account, ticker) ==
  SumSeq(FilterSeq(account.synthetic.openPositions, LAMBDA p : p.ticker = ticker),
         LAMBDA p : p.units)

\* executeSyntheticTrade({account, side, ticker, amount}); amount in 1e-6 USD
\* for a BUY, requestedUnits = amount / bid in 1e-6 units for a SELL.
executeSyntheticTrade(account, side, ticker, amount, requestedUnits, pd, cd) ==
  IF ticker \notin Tickers THEN rejected(account, "Invalid ticker")
  ELSE IF (side = "SELL" /\ requestedUnits <= 0) \/ (side # "SELL" /\ amount <= 0)
  THEN rejected(account, "Invalid amount")
  ELSE
    LET synthetic == account.synthetic
        quote == getSyntheticQuote(pd, ticker)
        record(acct, order) ==
          [acct EXCEPT
             !.synthetic.nextOrderId = @ + 1,
             !.synthetic.orderHistory =
               SliceFirst(<<[order EXCEPT !.id = synthetic.nextOrderId]>> \o @,
                          ORDER_HISTORY_CAP)]
    IN
    IF side = "BUY" THEN
      IF exceedsCash(amount, account.cashBalance)
      THEN rejected(account, "Insufficient cash balance")
      ELSE
        LET units == MulDivRound(amount, 1000, quote)
            position == [id |-> synthetic.nextPositionId, ticker |-> ticker,
                         units |-> units, avgEntryPrice |-> 10 * quote,
                         investedAmount |-> RoundDiv(amount, 100)]
            order == [id |-> 0, type |-> "BUY", ticker |-> ticker, units |-> units,
                      price |-> 10 * quote, amount |-> RoundDiv(amount, 100),
                      realizedPnl |-> 0]
            bought == [account EXCEPT
                         !.synthetic.nextPositionId = @ + 1,
                         !.synthetic.openPositions = Append(@, position),
                         !.cashBalance = cashAfterDebit(@, amount)]
        IN  accepted(recalculatePortfolioPnL(record(bought, order), pd, cd), 0, 0, 0, 0, 1)
    ELSE IF side = "SELL" THEN
      LET total == totalOwnedUnits(account, ticker)
      IN
      IF requestedUnits > total + SYNTH_EPS
      THEN rejected(account, "Insufficient units to sell")
      ELSE
        LET w == consumeSyntheticLots(synthetic.openPositions, ticker,
                                      Min(requestedUnits, total))
            proceeds == MulDiv(w.soldUnits, quote, 100000)
            order == [id |-> 0, type |-> "SELL", ticker |-> ticker,
                      units |-> w.soldUnits, price |-> 10 * quote,
                      amount |-> proceeds[1] + (IF 2 * proceeds[2] >= 100000 THEN 1 ELSE 0),
                      realizedPnl |->
                        RoundMixed(proceeds[1] - w.costWhole, proceeds[2], 100000,
                                   w.costNum, w.costDen)]
            sold == [account EXCEPT
                       !.synthetic.openPositions = w.next,
                       !.cashBalance = cashAfterCredit(@, proceeds[1])]
        IN  IF w.soldUnits <= 0 \/ w.remaining > SYNTH_EPS
            THEN rejected(account, "Insufficient units to sell")
            ELSE accepted(recalculatePortfolioPnL(record(sold, order), pd, cd),
                          total, w.soldUnits, w.costWhole, w.costNum, w.costDen)
    ELSE rejected(account, "Invalid side")

(***************************************************************************)
(* Settlement sweeper.                                                     *)
(***************************************************************************)
\* The winning side of a DAILY lot at the current price.
\* Variant: a tie settles as YES.
wonOutcomeOnTie(pd, position) ==
  LET finalSpot == pd.currentPrices[MARKET_DEFINITIONS[position.marketId].category]
  IN  IF finalSpot >= position.targetPrice THEN "YES" ELSE "NO"

wonOutcome(pd, position) ==
  LET finalSpot == pd.currentPrices[MARKET_DEFINITIONS[position.marketId].category]
  IN  IF finalSpot > position.targetPrice THEN "YES" ELSE "NO"

\* Variant: the sweep settles a lot of any period once it is three sessions old.
settleAccountAnyPeriod(account, ss, pd, cd) ==
  LET positions == account.prediction.openPositions
      sweep[i \in 0..Len(positions)] ==
        IF i = 0 THEN [account EXCEPT !.prediction.openPositions = <<>>]
        ELSE
          LET acct == sweep[i - 1]
              position == positions[i]
              sessionsHeld == ss.skipSessionCount - position.openedSession
              stillOpen == [acct EXCEPT !.prediction.openPositions = Append(@, position)]
          IN  IF sessionsHeld < SETTLE_AFTER_SESSIONS THEN stillOpen
              ELSE
                LET isWinningPosition == position.outcome = wonOutcome(pd, position)
                    payout == IF isWinningPosition THEN position.contracts ELSE 0
                    realizedPnl == payout - position.investedAmount
                    order == [id |-> 0, type |-> "SETTLEMENT",
                              marketId |-> position.marketId,
                              outcome |-> position.outcome,
                              contracts |-> position.contracts,
                              price |-> IF isWinningPosition THEN 10000 ELSE 0,
                              amount |-> payout, realizedPnl |-> realizedPnl,
                              result |-> IF isWinningPosition THEN "WIN" ELSE "LOSS",
                              session |-> ss.skipSessionCount, note |-> sessionsHeld]
                IN  appendOrderHistory(
                      [acct EXCEPT
                         !.cashBalance = RoundDiv(100 * @ + payout, 100),
                         !.prediction.realizedPnL = @ + realizedPnl], order)
  IN  recalculatePortfolioPnL(sweep[Len(positions)], pd, cd)

\* Variant: the sweep pays a due lot and leaves it in the open book.
settleAccountKeepingLot(account, ss, pd, cd) ==
  LET positions == account.prediction.openPositions
      sweep[i \in 0..Len(positions)] ==
        IF i = 0 THEN [account EXCEPT !.prediction.openPositions = <<>>]
        ELSE
          LET acct == sweep[i - 1]
              position == positions[i]
              sessionsHeld == ss.skipSessionCount - position.openedSession
              stillOpen == [acct EXCEPT !.prediction.openPositions = Append(@, position)]
          IN  IF MARKET_DEFINITIONS[position.marketId].period = "MONTHLY" THEN stillOpen
              ELSE IF sessionsHeld < SETTLE_AFTER_SESSIONS THEN stillOpen
              ELSE
                LET isWinningPosition == position.outcome = wonOutcome(pd, position)
                    payout == IF isWinningPosition THEN position.contracts ELSE 0
                    realizedPnl == payout - position.investedAmount
                    order == [id |-> 0, type |-> "SETTLEMENT",
                              marketId |-> position.marketId,
                              outcome |-> position.outcome,
                              contracts |-> position.contracts,
                              price |-> IF isWinningPosition THEN 10000 ELSE 0,
                              amount |-> payout, realizedPnl |-> realizedPnl,
                              result |-> IF isWinningPosition THEN "WIN" ELSE "LOSS",
                              session |-> ss.skipSessionCount, note |-> sessionsHeld]
                IN  appendOrderHistory(
                      [stillOpen EXCEPT
                         !.cashBalance = RoundDiv(100 * @ + payout, 100),
                         !.prediction.realizedPnL = @ + realizedPnl], order)
  IN  recalculatePortfolioPnL(sweep[Len(positions)], pd, cd)

\* The body of settleDuePredictionPositions for one account.
settleAccount(account, ss, pd, cd) ==
  LET positions == account.prediction.openPositions
      sweep[i \in 0..Len(positions)] ==
        IF i = 0 THEN [account EXCEPT !.prediction.openPositions = <<>>]
        ELSE
          LET acct == sweep[i - 1]
              position == positions[i]
              sessionsHeld == ss.skipSessionCount - position.openedSession
              stillOpen == [acct EXCEPT !.prediction.openPositions = Append(@, position)]
          IN  IF MARKET_DEFINITIONS[position.marketId].period = "MONTHLY" THEN stillOpen
              ELSE IF sessionsHeld < SETTLE_AFTER_SESSIONS THEN stillOpen
              ELSE
                LET isWinningPosition == position.outcome = wonOutcome(pd, position)
                    payout == IF isWinningPosition THEN position.contracts ELSE 0
                    realizedPnl == payout - position.investedAmount
                    order == [id |-> 0, type |-> "SETTLEMENT",
                              marketId |-> position.marketId,
                              outcome |-> position.outcome,
                              contracts |-> position.contracts,
                              price |-> IF isWinningPosition THEN 10000 ELSE 0,
                              amount |-> payout, realizedPnl |-> realizedPnl,
                              result |-> IF isWinningPosition THEN "WIN" ELSE "LOSS",
                              session |-> ss.skipSessionCount, note |-> sessionsHeld]
                IN  appendOrderHistory(
                      [acct EXCEPT
                         !.cashBalance = RoundDiv(100 * @ + payout, 100),
                         !.prediction.realizedPnL = @ + realizedPnl], order)
  IN  recalculatePortfolioPnL(sweep[Len(positions)], pd, cd)

\* settleDuePredictionPositions(): every account of the store, in one call.
settleDuePredictionPositions(store, ss, pd, cd) ==
  [accounts |-> [g \in DOMAIN store.accounts |->
                   settleAccount(store.accounts[g], ss, pd, cd)]]

(***************************************************************************)
(* Session clock.  An instant is [day, minute] in UTC; the wall clock of   *)
(* the handlers that stamp "now" stands at NOW.                            *)
(***************************************************************************)
NOW == [day |-> 0, minute |-> 10 * 60]

\* Variant: after the last slot the clock returns to the first slot of the same day.
nextSlotOfSameDay(fromDate, slotIndex) ==
  LET normalizedIndex == clamp(slotIndex, 0, Len(SESSION_SLOTS_MINUTES) - 1)
  IN  [day |-> fromDate.day,
       minute |-> SESSION_SLOTS_MINUTES[((normalizedIndex + 1) % Len(SESSION_SLOTS_MINUTES)) + 1]]

getNextSessionSlotFromIndex(fromDate, slotIndex) ==
  LET normalizedIndex == clamp(slotIndex, 0, Len(SESSION_SLOTS_MINUTES) - 1)
  IN  IF normalizedIndex < Len(SESSION_SLOTS_MINUTES) - 1
      THEN [day |-> fromDate.day, minute |-> SESSION_SLOTS_MINUTES[normalizedIndex + 2]]
      ELSE [day |-> fromDate.day + 1, minute |-> SESSION_SLOTS_MINUTES[1]]

\* Variant: the time of day of the timestamp is kept as it is.
alignTimestampKeepingTime(baseDate, slotIndex) ==
  [day |-> baseDate.day, minute |-> baseDate.minute]

alignTimestampToSlotIndex(baseDate, slotIndex) ==
  [day |-> baseDate.day,
   minute |-> SESSION_SLOTS_MINUTES[clamp(slotIndex, 0, Len(SESSION_SLOTS_MINUTES) - 1) + 1]]

\* One pass of the loop of runSkipSessions.  draw holds the random numbers
\* of the pass: per ticker the shock of getNextSessionPrice, the coin and
\* the magnitudes of updateChancesForTicker.  The result is the new
\* [pd, cd, ss, store].
RECURSIVE sessionPrices(_, _, _, _, _)
sessionPrices(pd, cd, i, at, draw) ==
  IF i > Len(TickerOrder) THEN <<pd, cd>>
  ELSE LET ticker == TickerOrder[i]
           next == getNextSessionPrice(pd, ticker, draw.shock[ticker])
           added == addPriceEntry(pd, cd, ticker, next, "session-skip", at,
                                  draw.coin[ticker], draw.mags[ticker])
       IN  sessionPrices(added[1], added[2], i + 1, at, draw)

dailyChanceCycle(cd, slotIndex) ==
  IF slotIndex = 0
  THEN [currentChances |->
          [m \in MarketIds |->
             IF m \in {DailyMarketIds[1], DailyMarketIds[2]} THEN NEUTRAL_CHANCE
             ELSE cd.currentChances[m]],
        chanceHistory |->
          [m \in MarketIds |->
             IF m \in {DailyMarketIds[1], DailyMarketIds[2]} THEN <<NEUTRAL_CHANCE>>
             ELSE cd.chanceHistory[m]]]
  ELSE [cd EXCEPT
          !.chanceHistory =
            [m \in MarketIds |->
               IF m \in {DailyMarketIds[1], DailyMarketIds[2]}
               THEN SliceLast(cd.chanceHistory[m], Min(3, slotIndex + 1))
               ELSE cd.chanceHistory[m]]]

\* Variant: the settlement check runs before the price and chance ticks.
skipOneSessionSettleFirst(pd, cd, ss, store, draw) ==
  LET nextSessionAt == getNextSessionSlotFromIndex(ss.lastSessionAt, ss.lastSessionSlotIndex)
      slotIndex == (ss.lastSessionSlotIndex + 1) % Len(SESSION_SLOTS_MINUTES)
      counted == [ss EXCEPT !.lastSessionAt = nextSessionAt,
                            !.lastSessionSlotIndex = slotIndex,
                            !.skipSessionCount = @ + 1]
      settled == settleDuePredictionPositions(store, counted, pd, cd)
      ticked == sessionPrices(pd, cd, 1, nextSessionAt, draw)
  IN  [pd |-> ticked[1],
       cd |-> dailyChanceCycle(ticked[2], slotIndex),
       ss |-> IF slotIndex = 0
              THEN [counted EXCEPT !.priceToBeat = ticked[1].currentPrices]
              ELSE counted,
       store |-> settled]

skipOneSession(pd, cd, ss, store, draw) ==
  LET nextSessionAt == getNextSessionSlotFromIndex(ss.lastSessionAt, ss.lastSessionSlotIndex)
      slotIndex == (ss.lastSessionSlotIndex + 1) % Len(SESSION_SLOTS_MINUTES)
      ticked == sessionPrices(pd, cd, 1, nextSessionAt, draw)
      counted == [ss EXCEPT !.lastSessionAt = nextSessionAt,
                            !.lastSessionSlotIndex = slotIndex,
                            !.skipSessionCount = @ + 1]
      settled == settleDuePredictionPositions(store, counted, ticked[1], ticked[2])
  IN  [pd |-> ticked[1],
       cd |-> dailyChanceCycle(ticked[2], slotIndex),
       ss |-> IF slotIndex = 0
              THEN [counted EXCEPT !.priceToBeat = ticked[1].currentPrices]
              ELSE counted,
       store |-> settled]

\* const count = Math.max(1, Math.min(20, Number(sessionCount) || 1)), in
\* halves of a session; a request is [present, halves].
clampedCount2(request) ==
  LET number == IF ~request.present \/ request.halves = 0 THEN 2 ELSE request.halves
  IN  Max(2, Min(2 * MAX_SKIP_COUNT, number))

(***************************************************************************)
(* Loading the JSON files at startup.                                      *)
(***************************************************************************)
\* generateSeedHistory(base, ticker): the history used when a file holds
\* fewer than two usable entries; the outcome in which every random step
\* of the walk is nil.
generateSeedHistory(ticker) ==
  [i \in 1..50 |-> [price |-> BASE_TICKER_PRICES[ticker], timestamp |-> NOW,
                    source |-> "seed"]]

\* The for loop of sanitizePricesData over sourceEntries[lo..hi], prev being
\* the price kept just before lo; it is evaluated half by half, the second
\* half starting from the last price of the first.
RECURSIVE cleanedEntries(_, _, _, _, _)
cleanedEntries(sourceEntries, lo, hi, prev, base) ==
  IF lo > hi THEN <<>>
  ELSE IF lo = hi
  THEN <<[sourceEntries[lo] EXCEPT !.price = boundedPrice(prev, base, 20 * @)]>>
  ELSE LET mid == (lo + hi) \div 2
           firstHalf == cleanedEntries(sourceEntries, lo, mid, prev, base)
       IN  firstHalf \o cleanedEntries(sourceEntries, mid + 1, hi,
                                       LastOf(firstHalf).price, base)

sanitizePricesData(raw) ==
  LET cleanedOf(ticker) ==
        LET base == BASE_TICKER_PRICES[ticker]
            sourceEntries == SliceLast(raw.priceHistory[ticker], PRICE_HISTORY_CAP)
            cleaned == cleanedEntries(sourceEntries, 1, Len(sourceEntries), base, base)
        IN  IF Len(cleaned) < 2 THEN generateSeedHistory(ticker) ELSE cleaned
      history == [t \in Tickers |-> cleanedOf(t)]
  IN  [currentPrices |-> [t \in Tickers |-> LastOf(history[t]).price],
       priceHistory |-> history]

sanitizeChancesData(raw) ==
  LET currentOf(m) ==
        clamp(IF raw.currentChances[m] = 0 THEN DEFAULT_MARKET_CHANCES[m]
              ELSE raw.currentChances[m], CHANCE_MIN, CHANCE_MAX)
      historyOf(m) ==
        LET mapped == SliceLast([i \in 1..Len(raw.chanceHistory[m]) |->
                                   clamp(IF raw.chanceHistory[m][i] = 0 THEN currentOf(m)
                                         ELSE raw.chanceHistory[m][i],
                                         CHANCE_MIN, CHANCE_MAX)],
                                CHANCE_HISTORY_CAP)
        IN  IF Len(mapped) = 0 THEN <<currentOf(m)>>
            ELSE [mapped EXCEPT ![Len(mapped)] = currentOf(m)]
  IN  [currentChances |-> [m \in MarketIds |-> currentOf(m)],
       chanceHistory |-> [m \in MarketIds |-> historyOf(m)]]

\* sanitizeSessionState(raw) followed by the alignment of lastSessionAt to
\* the slot index (part_004:2068-2076), for a file the server wrote.
sanitizeSessionState(raw, pd) ==
  LET slotIndex == clamp(raw.lastSessionSlotIndex, 0, Len(SESSION_SLOTS_MINUTES) - 1)
  IN  [skipSessionCount |-> raw.skipSessionCount,
       priceToBeat |-> [t \in Tickers |->
                          IF raw.priceToBeat[t] > 0 THEN raw.priceToBeat[t]
                          ELSE pd.currentPrices[t]],
       lastSessionAt |-> alignTimestampToSlotIndex(raw.lastSessionAt, slotIndex),
       lastSessionSlotIndex |-> slotIndex]

\* accountStore.accounts = Object.entries(...).reduce(... ensureAccountShape ...)
loadAccountStore(raw, pd, cd) ==
  [accounts |-> [g \in DOMAIN raw.accounts |-> ensureAccountShape(raw.accounts[g], pd, cd)]]

(***************************************************************************)
(* The initial state: the server has started from files that hold, for     *)
(* each ticker, two entries at the base price and, for each market, the    *)
(* default chance alone; no session was skipped and no account exists.     *)
(***************************************************************************)
\* The browser has no action under way and no message in flight.
NoClient ==
  [pc |-> "idle", skipAtStart |-> 0,
   emitted |-> FALSE,       \* "skipSessionsAll" on its way to the server
   acked |-> FALSE,         \* the acknowledgment on its way back
   posted |-> FALSE,        \* POST /api/sessions/skip on its way to the server
   answered |-> FALSE]      \* its response on its way back

NoBatch == [active |-> FALSE, count2 |-> 0, s |-> 0, skipBefore |-> 0]

NoResult ==
  [op |-> "start", guestId |-> "", ok |-> TRUE, error |-> "", created |-> FALSE,
   side |-> "", instrument |-> "", outcome |-> "", amount |-> 0, quantity |-> 0,
   cashBefore |-> 0,
   total |-> 0, sold |-> 0, costWhole |-> 0, costNum |-> 0, costDen |-> 1,
   count2 |-> 0, skipBefore |-> 0,
   requestSide |-> "", requestOutcome |-> "",   \* req.body.side, req.body.outcome
   broadcast |-> <<>>]                          \* the payload of io.emit("pricesUpdated"), if any

bootPrices ==
  [currentPrices |-> BASE_TICKER_PRICES,
   priceHistory |->
     [t \in Tickers |->
        [i \in 1..2 |-> [price |-> BASE_TICKER_PRICES[t],
                         timestamp |-> [day |-> 0, minute |-> SESSION_SLOTS_MINUTES[1]],
                         source |-> "seed"]]]]

bootChances(chances) ==
  [currentChances |-> chances,
   chanceHistory |-> [m \in MarketIds |-> <<chances[m]>>]]

InitWith(slotIndexes, chanceChoices) ==
  \E slotIndex \in slotIndexes, chances \in chanceChoices :
    /\ pricesData = sanitizePricesData(bootPrices)
    /\ chancesData = sanitizeChancesData(bootChances(chances))
    /\ sessionState =
         sanitizeSessionState(
           [skipSessionCount |-> 0, priceToBeat |-> BASE_TICKER_PRICES,
            lastSessionAt |-> [day |-> 0, minute |-> SESSION_SLOTS_MINUTES[1]],
            lastSessionSlotIndex |-> slotIndex], pricesData)
    /\ accountStore = [accounts |-> <<>>]
    /\ disk = [prices |-> pricesData, chances |-> chancesData,
               session |-> sessionState, accounts |-> accountStore]
    /\ batch = NoBatch
    /\ last = NoResult
    /\ client = NoClient

(***************************************************************************)
(* The handlers.  Node runs each to completion; the loop of               *)
(* runSkipSessions is exposed pass by pass, and no other handler runs      *)
(* while a batch is in progress.                                           *)
(***************************************************************************)
\* Bounds of the exploration.
MaxPriceEntries == 4     \* price overrides stop once a ticker's history is this long
MaxSessions == 4         \* skip requests that would pass this session count wait
MaxLots == 2             \* BUY requests stop once an account has opened this many lots
MaxOrders == 3           \* trade requests stop once an order history is this long
MaxCash == 100000        \* deposits stop once the cash balance is above this (cents)

\* buildLivePayload(): what broadcastLiveUpdate sends to every viewer.
buildLivePayload(pd, cd, ss) ==
  [prices |-> pd.currentPrices, histories |-> pd.priceHistory,
   priceToBeat |-> ss.priceToBeat,
   chances |-> cd.currentChances, chanceHistories |-> cd.chanceHistory]

\* The store a request handler works on after getOrCreateGuestAccount, and
\* the accounts file after the handler: written by getOrCreateGuestAccount
\* when it creates the account, and again when the handler saves.
savedAccounts(store, guestId, final, saves) ==
  IF saves THEN final
  ELSE IF createdAccount(accountStore, guestId) THEN store
  ELSE disk.accounts

\* POST /api/prediction/trade
PredictionTradeRoute(guestId, body) ==
  \E store \in {getOrCreateGuestAccount(accountStore, guestId, pricesData, chancesData)} :
  \E side \in {IF body.side = "SELL" THEN "SELL" ELSE "BUY"} :
  \E outcome \in {IF body.outcome = "NO" THEN "NO" ELSE "YES"} :
  \E result \in {executePredictionTrade(store.accounts[guestId], side, body.marketId,
                                        outcome, body.amount, body.contracts,
                                        sessionState, pricesData, chancesData)} :
  \E final \in {[accounts |-> [store.accounts EXCEPT ![guestId] = result.account]]} :
    /\ ~batch.active
    /\ side = "BUY" => store.accounts[guestId].prediction.nextPositionId <= MaxLots
    /\ Len(store.accounts[guestId].prediction.orderHistory) < MaxOrders
    /\ accountStore' = final
    /\ disk' = [disk EXCEPT !.accounts = savedAccounts(store, guestId, final, result.ok)]
    /\ last' = [NoResult EXCEPT
                  !.op = "predictionTrade", !.guestId = guestId,
                  !.ok = result.ok, !.error = result.error,
                  !.created = createdAccount(accountStore, guestId),
                  !.side = side, !.instrument = body.marketId, !.outcome = outcome,
                  !.requestSide = body.side, !.requestOutcome = body.outcome,
                  !.amount = body.amount, !.quantity = body.contracts,
                  !.cashBefore = store.accounts[guestId].cashBalance,
                  !.total = result.total, !.sold = result.sold,
                  !.costWhole = result.costWhole, !.costNum = result.costNum,
                  !.costDen = result.costDen]
    /\ UNCHANGED <<pricesData, chancesData, sessionState, batch>>
    /\ UNCHANGED client

\* POST /api/synthetic/trade
SyntheticTradeRoute(guestId, body) ==
  \E store \in {getOrCreateGuestAccount(accountStore, guestId, pricesData, chancesData)} :
  \E side \in {IF body.side = "SELL" THEN "SELL" ELSE "BUY"} :
  \E result \in {executeSyntheticTrade(store.accounts[guestId], side, body.ticker,
                                       body.amount, body.units, pricesData, chancesData)} :
  \E final \in {[accounts |-> [store.accounts EXCEPT ![guestId] = result.account]]} :
    /\ ~batch.active
    /\ side = "BUY" => store.accounts[guestId].synthetic.nextPositionId <= MaxLots
    /\ Len(store.accounts[guestId].synthetic.orderHistory) < MaxOrders
    /\ accountStore' = final
    /\ disk' = [disk EXCEPT !.accounts = savedAccounts(store, guestId, final, result.ok)]
    /\ last' = [NoResult EXCEPT
                  !.op = "syntheticTrade", !.guestId = guestId,
                  !.ok = result.ok, !.error = result.error,
                  !.created = createdAccount(accountStore, guestId),
                  !.side = side, !.instrument = body.ticker,
                  !.requestSide = body.side,
                  !.amount = body.amount, !.quantity = body.units,
                  !.cashBefore = store.accounts[guestId].cashBalance,
                  !.total = result.total, !.sold = result.sold,
                  !.costWhole = result.costWhole, !.costNum = result.costNum,
                  !.costDen = result.costDen]
    /\ UNCHANGED <<pricesData, chancesData, sessionState, batch>>
    /\ UNCHANGED client

\* Variant: a deposit is booked as realized P&L as well.
DepositRouteAsRealized(guestId, amount) ==
  \E store \in {getOrCreateGuestAccount(accountStore, guestId, pricesData, chancesData)} :
  \E ok \in {amount > 0} :
  \E credited \in {recalculatePortfolioPnL(
                     [store.accounts[guestId] EXCEPT
                        !.cashBalance = cashAfterDeposit(@, amount),
                        !.prediction.realizedPnL = @ + RoundDiv(amount, 100)],
                     pricesData, chancesData)} :
  \E final \in {IF ok THEN [accounts |-> [store.accounts EXCEPT ![guestId] = credited]]
                ELSE store} :
    /\ ~batch.active
    /\ store.accounts[guestId].cashBalance <= MaxCash
    /\ accountStore' = final
    /\ disk' = [disk EXCEPT !.accounts = savedAccounts(store, guestId, final, ok)]
    /\ last' = [NoResult EXCEPT
                  !.op = "deposit", !.guestId = guestId, !.ok = ok,
                  !.error = IF ok THEN "" ELSE "Invalid deposit amount",
                  !.created = createdAccount(accountStore, guestId),
                  !.amount = amount,
                  !.cashBefore = store.accounts[guestId].cashBalance]
    /\ UNCHANGED <<pricesData, chancesData, sessionState, batch>>
    /\ UNCHANGED client

\* POST /api/account/deposit; amount in 1e-6 USD
DepositRoute(guestId, amount) ==
  \E store \in {getOrCreateGuestAccount(accountStore, guestId, pricesData, chancesData)} :
  \E ok \in {amount > 0} :
  \E credited \in {recalculatePortfolioPnL(
                     [store.accounts[guestId] EXCEPT
                        !.cashBalance = cashAfterDeposit(@, amount)],
                     pricesData, chancesData)} :
  \E final \in {IF ok THEN [accounts |-> [store.accounts EXCEPT ![guestId] = credited]]
                ELSE store} :
    /\ ~batch.active
    /\ store.accounts[guestId].cashBalance <= MaxCash
    /\ accountStore' = final
    /\ disk' = [disk EXCEPT !.accounts = savedAccounts(store, guestId, final, ok)]
    /\ last' = [NoResult EXCEPT
                  !.op = "deposit", !.guestId = guestId, !.ok = ok,
                  !.error = IF ok THEN "" ELSE "Invalid deposit amount",
                  !.created = createdAccount(accountStore, guestId),
                  !.amount = amount,
                  !.cashBefore = store.accounts[guestId].cashBalance]
    /\ UNCHANGED <<pricesData, chancesData, sessionState, batch>>
    /\ UNCHANGED client

\* POST /api/account/username; a name is [text, length, wordChars], the
\* last telling whether it matches /^[A-Za-z0-9_]+$/
usernameError(name) ==
  IF name.length = 0 THEN "Username is required"
  ELSE IF name.length < 3 \/ name.length > 20 THEN "Username must be 3-20 characters"
  ELSE IF ~name.wordChars THEN "Username can use letters, numbers, and underscore only"
  ELSE ""

UsernameRoute(guestId, name) ==
  \E store \in {getOrCreateGuestAccount(accountStore, guestId, pricesData, chancesData)} :
  \E ok \in {usernameError(name) = ""} :
  \E final \in {IF ok
                THEN [accounts |-> [store.accounts EXCEPT ![guestId].username = name.text]]
                ELSE store} :
      /\ ~batch.active
      /\ accountStore' = final
      /\ disk' = [disk EXCEPT !.accounts = savedAccounts(store, guestId, final, ok)]
      /\ last' = [NoResult EXCEPT
                    !.op = "username", !.guestId = guestId, !.ok = ok,
                    !.error = usernameError(name),
                    !.created = createdAccount(accountStore, guestId)]
      /\ UNCHANGED <<pricesData, chancesData, sessionState, batch>>
      /\ UNCHANGED client

\* POST /api/account/reset
ResetRoute(guestId) ==
  \E fresh \in {ensureAccountShape(buildDefaultGuestAccount, pricesData, chancesData)} :
      /\ ~batch.active
      /\ accountStore' =
           [accounts |-> [g \in DOMAIN accountStore.accounts \cup {guestId} |->
                            IF g = guestId THEN fresh ELSE accountStore.accounts[g]]]
      /\ disk' = [disk EXCEPT !.accounts = accountStore']
      /\ last' = [NoResult EXCEPT !.op = "reset", !.guestId = guestId,
                    !.created = createdAccount(accountStore, guestId)]
      /\ UNCHANGED <<pricesData, chancesData, sessionState, batch>>
      /\ UNCHANGED client

\* GET /api/account
AccountRoute(guestId) ==
  \E store \in {getOrCreateGuestAccount(accountStore, guestId, pricesData, chancesData)} :
      /\ ~batch.active
      /\ accountStore' = store
      /\ disk' = [disk EXCEPT !.accounts = store]
      /\ last' = [NoResult EXCEPT !.op = "account", !.guestId = guestId,
                    !.created = createdAccount(accountStore, guestId),
                    !.cashBefore = store.accounts[guestId].cashBalance]
      /\ UNCHANGED <<pricesData, chancesData, sessionState, batch>>
      /\ UNCHANGED client

\* socket "updatePrice" (source "manual-update") and POST /api/prices
\* (source "api-update"); price20 is the raw price in twentieths of 1e-3 USD.
\* at is the wall clock, new Date(), that stamps the entry.
UpdatePriceAt(source, ticker, price20, coin, mags, maxEntries, at) ==
  /\ ~batch.active
  /\ IF ticker \in Tickers
     THEN \E added \in {addPriceEntry(pricesData, chancesData, ticker, price20,
                                        source, at, coin, mags)} :
              /\ Len(pricesData.priceHistory[ticker]) < maxEntries
              /\ pricesData' = added[1]
              /\ chancesData' = added[2]
              /\ disk' = [disk EXCEPT !.prices = added[1], !.chances = added[2]]
              /\ last' = [NoResult EXCEPT !.op = "updatePrice",
                            !.broadcast = <<buildLivePayload(added[1], added[2],
                                                             sessionState)>>]
     ELSE /\ UNCHANGED <<pricesData, chancesData, disk>>
          /\ last' = [NoResult EXCEPT !.op = "updatePrice", !.ok = FALSE,
                        !.error = "Invalid ticker or price"]
  /\ UNCHANGED <<sessionState, accountStore, batch>>
  /\ UNCHANGED client

UpdatePriceUpTo(source, ticker, price20, coin, mags, maxEntries) ==
  UpdatePriceAt(source, ticker, price20, coin, mags, maxEntries, NOW)

UpdatePrice(source, ticker, price20, coin, mags) ==
  UpdatePriceUpTo(source, ticker, price20, coin, mags, MaxPriceEntries)

\* POST /api/sessions/skip and socket "skipSessionsAll", up to the loop of
\* runSkipSessions: the actor's account is looked up (and created), the
\* count is clamped.
SkipSessionsCall(guestId, request, maxSessions) ==
  \E store \in {getOrCreateGuestAccount(accountStore, guestId, pricesData, chancesData)} :
  \E count2 \in {clampedCount2(request)} :
      /\ ~batch.active
      /\ sessionState.skipSessionCount + ((count2 + 1) \div 2) <= maxSessions
      /\ accountStore' = store
      /\ disk' = [disk EXCEPT !.accounts = savedAccounts(store, guestId, store, FALSE)]
      /\ batch' = [active |-> TRUE, count2 |-> count2, s |-> 0,
                   skipBefore |-> sessionState.skipSessionCount]
      /\ last' = [NoResult EXCEPT !.op = "skipCall", !.guestId = guestId,
                    !.created = createdAccount(accountStore, guestId)]
      /\ UNCHANGED <<pricesData, chancesData, sessionState>>
      /\ UNCHANGED client

\* One pass of "for (let s = 0; s < count; s++)"; the pass that ends the
\* loop also saves the session state and answers with count.
SkipSessionStep(draw) ==
  \E next \in {skipOneSession(pricesData, chancesData, sessionState, accountStore, draw)} :
  \E done \in {2 * (batch.s + 1) >= batch.count2} :
      /\ batch.active
      /\ pricesData' = next.pd
      /\ chancesData' = next.cd
      /\ sessionState' = next.ss
      /\ accountStore' = next.store
      /\ disk' = [prices |-> next.pd, chances |-> next.cd, accounts |-> next.store,
                  session |-> IF done THEN next.ss ELSE disk.session]
      /\ batch' = IF done THEN NoBatch ELSE [batch EXCEPT !.s = @ + 1]
      /\ last' = IF done
                 THEN [NoResult EXCEPT !.op = "skipSessions", !.count2 = batch.count2,
                         !.skipBefore = batch.skipBefore,
                         !.broadcast = <<buildLivePayload(next.pd, next.cd, next.ss)>>]
                 ELSE [NoResult EXCEPT !.op = "skipPass"]
      /\ UNCHANGED client

\* The process stops and starts again: every ledger is read back from its
\* file, sanitized and saved.
Restart ==
  \E pd \in {sanitizePricesData(disk.prices)} :
  \E cd \in {sanitizeChancesData(disk.chances)} :
  \E ss \in {sanitizeSessionState(disk.session, pd)} :
  \E store \in {loadAccountStore(disk.accounts, pd, cd)} :
      /\ ~batch.active
      /\ pricesData' = pd
      /\ chancesData' = cd
      /\ sessionState' = ss
      /\ accountStore' = store
      /\ disk' = [prices |-> pd, chances |-> cd, session |-> ss, accounts |-> store]
      /\ last' = [NoResult EXCEPT !.op = "restart"]
      /\ UNCHANGED batch
      /\ UNCHANGED client

(***************************************************************************)
(* Requests and random draws used by the specifications.                   *)
(***************************************************************************)
Guest == "guest-default"       \* resolveGuestId without an x-guest-id header

\* The random numbers of one session pass, the same for both tickers.
Draw(shock, coin, mag) ==
  [shock |-> [t \in Tickers |-> shock], coin |-> [t \in Tickers |-> coin],
   mags |-> [t \in Tickers |-> <<mag, mag>>]]

PredictionBody(side, marketId, outcome, amount, contracts) ==
  [side |-> side, marketId |-> marketId, outcome |-> outcome,
   amount |-> amount, contracts |-> contracts]

SyntheticBody(side, ticker, amount, units) ==
  [side |-> side, ticker |-> ticker, amount |-> amount, units |-> units]

(***************************************************************************)
(* SpecSell: buying and selling out of the open lots.                      *)
(***************************************************************************)
SellPredictionBodies ==
  { PredictionBody("BUY", "2", "YES", 42000000, 0),      \* 42 USD: 100 contracts at 0.42
    PredictionBody("SELL", "2", "YES", 0, 999950),       \* 99.995 contracts
    PredictionBody("SELL", "2", "YES", 0, 1000050),      \* 100.005
    PredictionBody("SELL", "2", "YES", 0, 1000150),      \* 100.015
    PredictionBody("SELL", "2", "YES", 0, 333333) }

SellSyntheticBodies ==
  { SyntheticBody("BUY", "DDR5", 400000000, 0),          \* 400 USD: 10.507789 units
    SyntheticBody("SELL", "DDR5", 0, 10507700),          \* leaves 0.000089 units
    SyntheticBody("SELL", "DDR5", 0, 10507850),          \* within EPS above the lot
    SyntheticBody("SELL", "DDR5", 0, 10507950),
    SyntheticBody("SELL", "DDR5", 0, 4000000) }

InitSell == InitWith({0}, {DEFAULT_MARKET_CHANCES})

NextSell ==
  \/ \E body \in SellPredictionBodies : PredictionTradeRoute(Guest, body)
  \/ \E body \in SellSyntheticBodies : SyntheticTradeRoute(Guest, body)

SpecSell == InitSell /\ [][NextSell]_vars

\* The open lots of a guest in a store (none when the guest has no account).
predictionLots(store, guestId) ==
  IF guestId \in DOMAIN store.accounts
  THEN store.accounts[guestId].prediction.openPositions ELSE <<>>

syntheticLots(store, guestId) ==
  IF guestId \in DOMAIN store.accounts
  THEN store.accounts[guestId].synthetic.openPositions ELSE <<>>

\* A step that is the prediction (synthetic) SELL request the primed `last` reports.
PredictionSellStep == last'.op = "predictionTrade" /\ last'.side = "SELL" /\ last'.quantity > 0
SyntheticSellStep == last'.op = "syntheticTrade" /\ last'.side = "SELL" /\ last'.quantity > 0

\* The quantity the guest owned under the sell key before the step.
ownedContracts ==
  SumSeq(FilterSeq(predictionLots(accountStore, last'.guestId),
                   LAMBDA p : p.marketId = last'.instrument /\ p.outcome = last'.outcome),
         LAMBDA p : p.contracts)

ownedUnits ==
  SumSeq(FilterSeq(syntheticLots(accountStore, last'.guestId),
                   LAMBDA p : p.ticker = last'.instrument),
         LAMBDA p : p.units)

\* C2: a SELL is accepted only if the requested quantity is at most the
\* total of the seller's open lots under the sell key plus the tolerance
\* (0.01 contracts, 0.0001 units); a request above that is rejected as
\* insufficient inventory; and the quantity the SELL order records as sold
\* and pays for is at most the total owned before the SELL.
C2_SellWithinInventory ==
  [][ /\ PredictionSellStep =>
           /\ last'.ok =>
                /\ last'.quantity <= ownedContracts + 100
                /\ LET order == accountStore'.accounts[last'.guestId].prediction.orderHistory[1]
                   IN  /\ order.type = "SELL"
                       /\ order.contracts <= ownedContracts
                       /\ order.amount <=
                            MulDivRound(ownedContracts, order.price, 10000)
           /\ last'.quantity > ownedContracts + 100 =>
                ~last'.ok /\ last'.error = "Not enough contracts to sell"
      /\ SyntheticSellStep =>
           /\ last'.ok =>
                /\ last'.quantity <= ownedUnits + 100
                /\ LET order == accountStore'.accounts[last'.guestId].synthetic.orderHistory[1]
                   IN  /\ order.type = "SELL"
                       /\ order.units <= ownedUnits
                       /\ order.amount <= MulDivRound(ownedUnits, order.price, 1000000)
           /\ last'.quantity > ownedUnits + 100 =>
                ~last'.ok /\ last'.error = "Insufficient units to sell"
    ]_vars

\* C2 witnesses: a prediction SELL of more than the lots hold, within the
\* tolerance, was accepted and sold the whole holding.
C2_Witness ==
  /\ last.op = "predictionTrade" /\ last.side = "SELL" /\ last.ok
  /\ last.quantity > last.total
  /\ last.sold = last.total

\* The cost basis a sequence of lots carries, in 1e-4 USD.
investedTotal(lots) == SumSeq(lots, LAMBDA p : p.investedAmount)

\* Rounding tolerance of the cost-basis ledger: two units of the fourth
\* decimal (one for the rewritten lot, one for the order's figures).
CostTolerance == 1 + 1

\* C5: for every accepted SELL, the cost removed (the SELL order's proceeds
\* less its realized P&L) plus the invested amount of the lots that remain
\* equals the invested amount of the lots before the SELL, within the
\* rounding tolerance - also when the SELL leaves a lot a small residual.
C5_CostBasisConserved ==
  [][ /\ (PredictionSellStep /\ last'.ok) =>
           LET order == accountStore'.accounts[last'.guestId].prediction.orderHistory[1]
               removedCost == order.amount - order.realizedPnl
           IN  Abs(investedTotal(predictionLots(accountStore, last'.guestId))
                   - investedTotal(predictionLots(accountStore', last'.guestId))
                   - removedCost) <= CostTolerance
      /\ (SyntheticSellStep /\ last'.ok) =>
           LET order == accountStore'.accounts[last'.guestId].synthetic.orderHistory[1]
               removedCost == order.amount - order.realizedPnl
           IN  Abs(investedTotal(syntheticLots(accountStore, last'.guestId))
                   - investedTotal(syntheticLots(accountStore', last'.guestId))
                   - removedCost) <= CostTolerance
    ]_vars

(***************************************************************************)
(* SpecSettle: prediction lots held across session skips.                  *)
(***************************************************************************)
SettlePredictionBodies ==
  { PredictionBody("BUY", "2", "YES", 42000000, 0),
    PredictionBody("BUY", "4", "NO", 10000000, 0) }

\* DDR5 rises or stands still, DDR4 falls or rises: a lot meets a price
\* above, equal to and below its target.
SettleDraws ==
  { [Draw(1, 1, 400) EXCEPT !.shock["DDR4"] = -1],
    [Draw(0, -1, 400) EXCEPT !.shock["DDR4"] = 1] }

SkipRequest(halves) == [present |-> TRUE, halves |-> halves]

InitSettle == InitWith({0}, {DEFAULT_MARKET_CHANCES})

NextSettle ==
  \/ \E body \in SettlePredictionBodies : PredictionTradeRoute(Guest, body)
  \/ \E halves \in {2, 4} : SkipSessionsCall(Guest, SkipRequest(halves), MaxSessions)
  \/ \E draw \in SettleDraws : SkipSessionStep(draw)

SpecSettle == InitSettle /\ [][NextSettle]_vars

\* The DAILY lots among a guest's open prediction lots.
dailyLots(store, guestId) ==
  FilterSeq(predictionLots(store, guestId),
            LAMBDA p : MARKET_DEFINITIONS[p.marketId].period = "DAILY")

\* The lot is no longer among the guest's open lots after the step.
lotGone(guestId, lot) ==
  \A i \in 1..Len(predictionLots(accountStore', guestId)) :
    predictionLots(accountStore', guestId)[i].id # lot.id

\* The prediction orders the step appended for the guest.
newOrders(guestId) ==
  LET before == IF guestId \in DOMAIN accountStore.accounts
                THEN accountStore.accounts[guestId].prediction.nextOrderId ELSE 1
  IN  FilterSeq(accountStore'.accounts[guestId].prediction.orderHistory,
                LAMBDA o : o.id >= before)

\* The step is a pass of the session loop.
SessionPass == last'.op \in {"skipPass", "skipSessions"}

\* C3: a DAILY lot opened at session S stays open exactly while
\* skipSessionCount - S < 3: no open DAILY lot is ever 3 or more sessions
\* old; the step that brings skipSessionCount - S to 3 removes the lot and
\* records its SETTLEMENT at exactly 3 sessions held; and a lot that leaves
\* the book in a step other than the guest's own SELL or reset is 3 sessions old.
C3_SettledAtThreeSessions ==
  [][ \A g \in DOMAIN accountStore'.accounts :
        /\ \A i \in 1..Len(dailyLots(accountStore', g)) :
             sessionState'.skipSessionCount - dailyLots(accountStore', g)[i].openedSession < 3
        /\ \A i \in 1..Len(dailyLots(accountStore, g)) :
             LET lot == dailyLots(accountStore, g)[i]
                 held == sessionState'.skipSessionCount - lot.openedSession
             IN  /\ held >= 3 =>
                       /\ held = 3
                       /\ lotGone(g, lot)
                       /\ \E k \in 1..Len(newOrders(g)) :
                            /\ newOrders(g)[k].type = "SETTLEMENT"
                            /\ newOrders(g)[k].marketId = lot.marketId
                            /\ newOrders(g)[k].outcome = lot.outcome
                            /\ newOrders(g)[k].contracts = lot.contracts
                            /\ newOrders(g)[k].session = lot.openedSession + 3
                 /\ (lotGone(g, lot) /\ ~(last'.guestId = g /\ last'.op \in {"predictionTrade", "reset"}))
                      => held >= 3
    ]_vars

\* C3 witness: a lot has just been settled while a younger DAILY lot of the
\* same guest stays open.
C3_Witness ==
  \E g \in DOMAIN accountStore.accounts :
    /\ Len(dailyLots(accountStore, g)) > 0
    /\ Len(accountStore.accounts[g].prediction.orderHistory) > 0
    /\ accountStore.accounts[g].prediction.orderHistory[1].type = "SETTLEMENT"
    /\ accountStore.accounts[g].prediction.orderHistory[1].session
         = sessionState.skipSessionCount

\* C4: when a session pass settles a DAILY lot, the winner is YES iff the
\* ticker's price after the pass's price tick is strictly above the lot's
\* frozen targetPrice (NO on a tie); the SETTLEMENT order pays the lot's
\* contracts to a lot on the winning side and 0 to the other, and the cash
\* balance grows by the payouts, kept to the cent.
C4_SettlementPayout ==
  [][ SessionPass =>
        \A g \in DOMAIN accountStore.accounts :
          LET lots == dailyLots(accountStore, g)
              settled == FilterSeq(lots, LAMBDA p : lotGone(g, p))
              winner(p) ==
                IF pricesData'.currentPrices[MARKET_DEFINITIONS[p.marketId].category]
                     > p.targetPrice
                THEN "YES" ELSE "NO"
              payout(p) == IF p.outcome = winner(p) THEN p.contracts ELSE 0
          IN  /\ Len(newOrders(g)) = Len(settled)
              /\ \A i \in 1..Len(settled) :
                   \E k \in 1..Len(newOrders(g)) :
                     /\ newOrders(g)[k].type = "SETTLEMENT"
                     /\ newOrders(g)[k].marketId = settled[i].marketId
                     /\ newOrders(g)[k].outcome = settled[i].outcome
                     /\ newOrders(g)[k].contracts = settled[i].contracts
                     /\ newOrders(g)[k].amount = payout(settled[i])
                     /\ newOrders(g)[k].result =
                          (IF settled[i].outcome = winner(settled[i]) THEN "WIN" ELSE "LOSS")
              /\ Abs(100 * (accountStore'.accounts[g].cashBalance
                            - accountStore.accounts[g].cashBalance)
                     - SumSeq(settled, payout)) <= 50 * Len(settled)
    ]_vars

\* C4 witness: a YES lot opened at session 0 on market "2" has just been
\* settled as a LOSS with the price equal to its target (a tie).
C4_Witness ==
  \E g \in DOMAIN accountStore.accounts :
    /\ sessionState.skipSessionCount = 3
    /\ pricesData.currentPrices["DDR5"] = BASE_TICKER_PRICES["DDR5"]
    /\ \E k \in 1..Len(accountStore.accounts[g].prediction.orderHistory) :
         LET o == accountStore.accounts[g].prediction.orderHistory[k]
         IN  o.type = "SETTLEMENT" /\ o.marketId = "2" /\ o.outcome = "YES"
             /\ o.session = 3 /\ o.result = "LOSS" /\ o.amount = 0

(***************************************************************************)
(* Spec: every request of one guest, the session clock and a restart of    *)
(* the process.                                                            *)
(***************************************************************************)
PredictionBodies ==
  { PredictionBody("BUY", "2", "YES", 4000, 0),           \* $0.004
    PredictionBody("BUY", "2", "YES", 1000000000, 0),     \* $1000, the opening balance
    PredictionBody("BUY", "9", "YES", 10000000, 0),       \* no such market
    PredictionBody("SELL", "2", "YES", 0, 1000000) }      \* 100 contracts

SyntheticBodies ==
  { SyntheticBody("BUY", "DDR5", 400000000, 0),           \* $400
    SyntheticBody("BUY", "DDR3", 400000000, 0),           \* no such ticker
    SyntheticBody("SELL", "DDR5", 0, 4000000) }           \* 4 units

DepositAmounts == {250000000, -5000000}                   \* $250, -$5

Usernames ==
  { [text |-> "trader_1", length |-> 8, wordChars |-> TRUE],
    [text |-> "a b", length |-> 3, wordChars |-> FALSE] }

FlatDraw == Draw(0, 1, 400)

MainInit == InitWith({0}, {DEFAULT_MARKET_CHANCES})

\* The orders on both of a guest's books.
ordersOf(store, guestId) ==
  IF guestId \in DOMAIN store.accounts
  THEN Len(store.accounts[guestId].prediction.orderHistory)
       + Len(store.accounts[guestId].synthetic.orderHistory)
  ELSE 0

Next ==
  \/ \E body \in PredictionBodies :
       ordersOf(accountStore, Guest) < MaxOrders /\ PredictionTradeRoute(Guest, body)
  \/ \E body \in SyntheticBodies :
       ordersOf(accountStore, Guest) < MaxOrders /\ SyntheticTradeRoute(Guest, body)
  \/ \E amount \in DepositAmounts : DepositRoute(Guest, amount)
  \/ \E name \in Usernames : UsernameRoute(Guest, name)
  \/ ResetRoute(Guest)
  \/ AccountRoute(Guest)
  \/ SkipSessionsCall(Guest, SkipRequest(6), MaxSessions)
  \/ SkipSessionStep(FlatDraw)
  \/ Restart

Spec == MainInit /\ [][Next]_vars

\* The balance a request finds: a guest without an account gets a default one.
cashBalanceOf(store, guestId) ==
  IF guestId \in DOMAIN store.accounts THEN store.accounts[guestId].cashBalance
  ELSE INITIAL_CASH

\* The response is that of an accepted BUY on either book.
AcceptedBuy(response) ==
  /\ response.op \in {"predictionTrade", "syntheticTrade"}
  /\ response.side = "BUY"
  /\ response.ok

\* C1: after every step every account's cashBalance is >= 0, in memory and
\* in the account file, and an accepted BUY (prediction or synthetic) asked
\* for no more than the cash balance the guest had when it was processed.
C1_CashNeverNegative ==
  [][ /\ \A g \in DOMAIN accountStore'.accounts :
           accountStore'.accounts[g].cashBalance >= 0
      /\ \A g \in DOMAIN disk'.accounts.accounts :
           disk'.accounts.accounts[g].cashBalance >= 0
      /\ AcceptedBuy(last') =>
           (last'.amount + 9999) \div 10000 <= cashBalanceOf(accountStore, last'.guestId)
    ]_vars

\* C1 witness: an accepted BUY has spent the whole balance.
C1_Witness ==
  /\ AcceptedBuy(last)
  /\ last.amount = 10000 * last.cashBefore
  /\ accountStore.accounts[last.guestId].cashBalance = 0

\* The requests that can be rejected.
RejectableOps == {"predictionTrade", "syntheticTrade", "deposit", "username"}

\* C8: a rejected request (trade, deposit or username) leaves the prices,
\* the chances, the session state, every account and every file as they were.
C8_RejectionChangesNothing ==
  [][ (last'.op \in RejectableOps /\ ~last'.ok)
        => UNCHANGED <<pricesData, chancesData, sessionState, accountStore, disk>>
    ]_vars

\* C9: two BUY requests of one guest processed one after the other are both
\* accepted only if their amounts together fit the cash balance the first found.
C9_TwoBuysWithinCash ==
  [][ (AcceptedBuy(last) /\ AcceptedBuy(last') /\ last.guestId = last'.guestId)
        => (last.amount + last'.amount + 9999) \div 10000 <= last.cashBefore
    ]_vars

(***************************************************************************)
(* SpecLedger: price overrides, session passes and restarts acting on the  *)
(* price and chance ledgers.  The chance file may open near either clamp.  *)
(***************************************************************************)
LedgerPrices == {0, 20 * 39019, 20 * 39900}     \* $0, $39.019, $39.90

LedgerChances ==
  { DEFAULT_MARKET_CHANCES,
    [m \in MarketIds |-> IF m \in {"1", "2"} THEN 9700 ELSE 300] }

LedgerDraws ==
  { Draw(0, 1, 599), [Draw(0, -1, 200) EXCEPT !.shock["DDR4"] = -1] }

InitLedger == InitWith({0}, LedgerChances)

NextLedger ==
  \/ \E price20 \in LedgerPrices, coin \in {-1, 1} :
       UpdatePrice("manual", "DDR5", price20, coin, <<599, 200>>)
  \/ UpdatePrice("manual", "DDR3", 20 * 39019, 1, <<599, 200>>)
  \/ \E halves \in {2, 6} : SkipSessionsCall(Guest, SkipRequest(halves), MaxSessions)
  \/ \E draw \in LedgerDraws : SkipSessionStep(draw)
  \/ Restart

SpecLedger == InitLedger /\ [][NextLedger]_vars

\* C6: every recorded price lies within 5 % of the ticker's base price and
\* within 5 % of the price recorded before it.
C6_PriceBounds ==
  \A t \in Tickers :
    \A i \in 1..Len(pricesData.priceHistory[t]) :
      LET price == pricesData.priceHistory[t][i].price
          base == BASE_TICKER_PRICES[t]
      IN  /\ 19 * base <= 20 * price /\ 20 * price <= 21 * base
          /\ i > 1 =>
               LET prev == pricesData.priceHistory[t][i - 1].price
               IN  19 * prev <= 20 * price /\ 20 * price <= 21 * prev

\* C7: every market's current chance lies in 1..99 and is the last entry of
\* the market's chance history.
C7_ChanceBounds ==
  \A m \in MarketIds :
    /\ CHANCE_MIN <= chancesData.currentChances[m]
    /\ chancesData.currentChances[m] <= CHANCE_MAX
    /\ Len(chancesData.chanceHistory[m]) > 0
    /\ LastOf(chancesData.chanceHistory[m]) = chancesData.currentChances[m]

\* C7 witness: after the daily reset of the third session pass a market
\* pushed down three times sits on the lower clamp.
C7_Witness ==
  /\ sessionState.skipSessionCount >= 3
  /\ chancesData.chanceHistory["2"] = <<NEUTRAL_CHANCE>>
  /\ chancesData.currentChances["3"] = CHANCE_MIN
  /\ Len(chancesData.chanceHistory["3"]) >= 4

(***************************************************************************)
(* SpecSkip: skip requests with every kind of count.                       *)
(***************************************************************************)
MaxSkipSessions == 21    \* skip requests that would pass this session count wait

\* count missing, 0, -3, 1, 2.5, 20 and 23, in halves of a session
SkipRequests ==
  {[present |-> FALSE, halves |-> 0]}
    \cup {SkipRequest(halves) : halves \in {0, -6, 2, 5, 40, 46}}

InitSkip == InitWith({0}, {DEFAULT_MARKET_CHANCES})

NextSkip ==
  \/ \E request \in SkipRequests : SkipSessionsCall(Guest, request, MaxSkipSessions)
  \/ SkipSessionStep(FlatDraw)

SpecSkip == InitSkip /\ [][NextSkip]_vars

\* C10: when a skip request has been answered, the returned count lies in
\* 1..20 and skipSessionCount has grown by exactly the returned count.
C10_SkipCountApplied ==
  last.op = "skipSessions" =>
    /\ 2 <= last.count2 /\ last.count2 <= 2 * 20
    /\ 2 * (sessionState.skipSessionCount - last.skipBefore) = last.count2

(***************************************************************************)
(* The session clock: POST /api/sessions/reconcile realigns the slot of    *)
(* the session state to the newest price entry.                            *)
(***************************************************************************)
\* getSessionSlotIndex(date) is called by the server and defined nowhere
\* in it; by its uses it is the index of the slot that falls on the
\* minute of date, and -1 when there is none.
getSessionSlotIndex(date) ==
  IF \E i \in 1..Len(SESSION_SLOTS_MINUTES) : SESSION_SLOTS_MINUTES[i] = date.minute
  THEN (CHOOSE i \in 1..Len(SESSION_SLOTS_MINUTES) :
          SESSION_SLOTS_MINUTES[i] = date.minute) - 1
  ELSE -1

\* The timestamp of the newest entry of the first ticker's history.
getLatestHistoryTimestamp(pd) ==
  LET entries == pd.priceHistory[TickerOrder[1]]
  IN  IF Len(entries) = 0 THEN NOW ELSE LastOf(entries).timestamp

\* POST /api/sessions/reconcile
ReconcileRoute ==
  \E parsed \in {getLatestHistoryTimestamp(pricesData)} :
  \E derived \in {getSessionSlotIndex(parsed)} :
  \E slotIndex \in {IF derived >= 0 THEN derived ELSE 0} :
      /\ ~batch.active
      /\ sessionState' = [sessionState EXCEPT
                            !.lastSessionSlotIndex = slotIndex,
                            !.lastSessionAt = alignTimestampToSlotIndex(parsed, slotIndex)]
      /\ disk' = [disk EXCEPT !.session = sessionState']
      /\ last' = [NoResult EXCEPT !.op = "reconcile"]
      /\ UNCHANGED <<pricesData, chancesData, accountStore, batch>>
      /\ UNCHANGED client

(***************************************************************************)
(* SpecClock: session skips of one and of three sessions, manual price     *)
(* overrides between them, reconciliation of the clock, restarts.          *)
(***************************************************************************)
MaxClockSessions == 6    \* skip requests that would pass this session count wait

ClockPrice == 20 * 39019

InitClock == InitWith({0}, {DEFAULT_MARKET_CHANCES})

NextClock ==
  \/ UpdatePrice("manual-update", "DDR5", ClockPrice, 1, <<599, 200>>)
  \/ \E halves \in {2, 6} : SkipSessionsCall(Guest, SkipRequest(halves), MaxClockSessions)
  \/ \E draw \in LedgerDraws : SkipSessionStep(draw)
  \/ ReconcileRoute
  \/ Restart

SpecClock == InitClock /\ [][NextClock]_vars

\* The position of the session count in the cycle of three slots.
slotPhase(ss) ==
  (ss.skipSessionCount + Len(SESSION_SLOTS_MINUTES) - ss.lastSessionSlotIndex)
    % Len(SESSION_SLOTS_MINUTES)

\* C11: priceToBeat is resynced to the current prices exactly once in any
\* three consecutive session steps, in the step that lands on slot 0, and
\* is left alone by the steps that land on slots 1 and 2: a session step
\* resyncs if and only if it lands on slot 0, and the slot keeps its place
\* in the cycle of the session count, so that slot 0 comes back at every
\* third step whatever happens between the steps.
C11_ResyncOnceInThree ==
  [][/\ slotPhase(sessionState') = slotPhase(sessionState)
     /\ SessionPass =>
          IF sessionState'.lastSessionSlotIndex = 0
          THEN sessionState'.priceToBeat = pricesData'.currentPrices
          ELSE sessionState'.priceToBeat = sessionState.priceToBeat]_vars

(***************************************************************************)
(* The earlier copy of the server (components/SyntheticTradeCard.tsx, from *)
(* line 378): four tickers and eight markets, no session slots and no      *)
(* synthetic trades.  Its definitions carry the prefix Legacy_; what the   *)
(* two copies share word for word (clamp, sanitizePredictionState,         *)
(* getCurrentContractPrice, appendOrderHistory, the bounded price of       *)
(* addPriceEntry) is used as it is.  The variables hold its state in its   *)
(* own shape: the session state is [skipSessionCount, priceToBeat] and an  *)
(* account has no synthetic ledger.                                        *)
(***************************************************************************)
Legacy_Tickers == {"DDR5", "DDR4", "GDDR5", "GDDR6"}
Legacy_TickerOrder == <<"DDR5", "DDR4", "GDDR5", "GDDR6">>
Legacy_BASE_TICKER_PRICES == [DDR5 |-> 38067, DDR4 |-> 78409, GDDR5 |-> 9409, GDDR6 |-> 9654]
Legacy_MarketIds == {"1", "2", "3", "4", "5", "6", "7", "8"}
Legacy_MARKET_IDS_BY_TICKER ==
  [DDR5 |-> <<"1", "2">>, DDR4 |-> <<"3", "4">>, GDDR6 |-> <<"5", "6">>,
   GDDR5 |-> <<"7", "8">>]
Legacy_DEFAULT_MARKET_CHANCES ==
  [m \in Legacy_MarketIds |->
     CASE m = "1" -> 6400 [] m = "2" -> 4200 [] m = "3" -> 2100 [] m = "4" -> 3500
       [] m = "5" -> 7800 [] m = "6" -> 5200 [] m = "7" -> 5500 [] m = "8" -> 4800]
Legacy_MARKET_DEFINITIONS ==
  [m \in Legacy_MarketIds |->
     [category |-> CASE m \in {"1", "2"} -> "DDR5" [] m \in {"3", "4"} -> "DDR4"
                     [] m \in {"5", "6"} -> "GDDR6" [] m \in {"7", "8"} -> "GDDR5",
      period |-> IF m \in {"1", "3", "5", "7"} THEN "MONTHLY" ELSE "DAILY"]]
Legacy_INITIAL_CASH == 124000           \* cashBalance: 1240, in cents

\* updateChancesForTicker(ticker): for each of the ticker's two markets a
\* direction (1 or -1) and a magnitude 5 + Math.random() * 5 are drawn.
Legacy_updateChancesForTicker(cd, ticker, dirs, mags) ==
  LET ids == Legacy_MARKET_IDS_BY_TICKER[ticker]
  IN  bumpChance(bumpChance(cd, ids[1], dirs[1], mags[1]), ids[2], dirs[2], mags[2])

\* addPriceEntry(ticker, incomingPrice, source): the new pricesData.
Legacy_addPriceEntry(pd, ticker, incoming20, source) ==
  LET base == Legacy_BASE_TICKER_PRICES[ticker]
      prev == IF pd.currentPrices[ticker] = 0 THEN base ELSE pd.currentPrices[ticker]
      price == boundedPrice(prev, base, incoming20)
      entry == [price |-> price, timestamp |-> NOW, source |-> source]
  IN  [currentPrices |-> [pd.currentPrices EXCEPT ![ticker] = price],
       priceHistory |->
         [pd.priceHistory EXCEPT
            ![ticker] = SliceLast(Append(@, entry), PRICE_HISTORY_CAP)]]

Legacy_getNextSessionPrice(pd, ticker, shock) ==
  LET base == Legacy_BASE_TICKER_PRICES[ticker]
      current == IF pd.currentPrices[ticker] = 0 THEN base ELSE pd.currentPrices[ticker]
  IN  clamp((20 + shock) * current, 19 * base, 21 * base)

Legacy_buildDefaultGuestAccount ==
  [username |-> "DEMO", cashBalance |-> Legacy_INITIAL_CASH, portfolioPnL |-> 0,
   prediction |-> buildDefaultPredictionState]

Legacy_recalculatePortfolioPnL(account, cd) ==
  LET pv(p) == MulDiv(p.contracts, getCurrentContractPrice(cd, p.marketId, p.outcome), 10000)
      pred == account.prediction.openPositions
      whole == SumSeq(pred, LAMBDA p : pv(p)[1] - p.investedAmount)
      frac == 10 * SumSeq(pred, LAMBDA p : pv(p)[2])
      n == whole + (frac \div 100000)
      cents == RoundMixed(n \div 100, (n % 100) * 100000 + (frac % 100000), 10000000, 0, 1)
  IN  [account EXCEPT !.portfolioPnL = cents]

\* ensureAccountShape(account): cashBalance: Number(account.cashBalance) || 1240
Legacy_ensureAccountShape(account, cd) ==
  Legacy_recalculatePortfolioPnL(
    [username |-> account.username,
     cashBalance |-> IF account.cashBalance = 0 THEN Legacy_INITIAL_CASH
                     ELSE account.cashBalance,
     portfolioPnL |-> account.portfolioPnL,
     prediction |-> sanitizePredictionState(account.prediction)], cd)

Legacy_getOrCreateGuestAccount(store, guestId, cd) ==
  LET existing == IF createdAccount(store, guestId)
                  THEN Legacy_ensureAccountShape(Legacy_buildDefaultGuestAccount, cd)
                  ELSE store.accounts[guestId]
      normalized == Legacy_ensureAccountShape(existing, cd)
  IN  [accounts |->
         [g \in DOMAIN store.accounts \cup {guestId} |->
            IF g = guestId THEN normalized ELSE store.accounts[g]]]

\* The body of settleDuePredictionPositions for one account.
Legacy_settleAccount(account, ss, pd, cd) ==
  LET positions == account.prediction.openPositions
      sweep[i \in 0..Len(positions)] ==
        IF i = 0 THEN [account EXCEPT !.prediction.openPositions = <<>>]
        ELSE
          LET acct == sweep[i - 1]
              position == positions[i]
              definition == Legacy_MARKET_DEFINITIONS[position.marketId]
              sessionsHeld == ss.skipSessionCount - position.openedSession
              stillOpen == [acct EXCEPT !.prediction.openPositions = Append(@, position)]
          IN  IF definition.period = "MONTHLY" THEN stillOpen
              ELSE IF sessionsHeld < SETTLE_AFTER_SESSIONS THEN stillOpen
              ELSE
                LET won == IF pd.currentPrices[definition.category] > position.targetPrice
                           THEN "YES" ELSE "NO"
                    isWinningPosition == position.outcome = won
                    payout == IF isWinningPosition THEN position.contracts ELSE 0
                    realizedPnl == payout - position.investedAmount
                    order == [id |-> 0, type |-> "SETTLEMENT",
                              marketId |-> position.marketId,
                              outcome |-> position.outcome,
                              contracts |-> position.contracts,
                              price |-> IF isWinningPosition THEN 10000 ELSE 0,
                              amount |-> payout, realizedPnl |-> realizedPnl,
                              result |-> IF isWinningPosition THEN "WIN" ELSE "LOSS",
                              session |-> ss.skipSessionCount, note |-> sessionsHeld]
                IN  appendOrderHistory(
                      [acct EXCEPT
                         !.cashBalance = RoundDiv(100 * @ + payout, 100),
                         !.prediction.realizedPnL = @ + realizedPnl], order)
  IN  Legacy_recalculatePortfolioPnL(sweep[Len(positions)], cd)

\* One pass of the loop of runSkipSessions: per ticker a new price and new
\* chances, then the session count, the sweep and, at every third count,
\* the resync of priceToBeat.  draw is [shock, dirs, mags] per ticker.
RECURSIVE Legacy_sessionPrices(_, _, _, _)
Legacy_sessionPrices(pd, cd, i, draw) ==
  IF i > Len(Legacy_TickerOrder) THEN <<pd, cd>>
  ELSE LET ticker == Legacy_TickerOrder[i]
           next == Legacy_getNextSessionPrice(pd, ticker, draw.shock[ticker])
       IN  Legacy_sessionPrices(
             Legacy_addPriceEntry(pd, ticker, next, "session-skip"),
             Legacy_updateChancesForTicker(cd, ticker, draw.dirs[ticker], draw.mags[ticker]),
             i + 1, draw)

Legacy_skipOneSession(pd, cd, ss, store, draw) ==
  LET ticked == Legacy_sessionPrices(pd, cd, 1, draw)
      counted == [ss EXCEPT !.skipSessionCount = @ + 1]
  IN  [pd |-> ticked[1],
       cd |-> ticked[2],
       ss |-> IF counted.skipSessionCount % 3 = 0
              THEN [counted EXCEPT !.priceToBeat = ticked[1].currentPrices]
              ELSE counted,
       store |-> [accounts |->
                    [g \in DOMAIN store.accounts |->
                       Legacy_settleAccount(store.accounts[g], counted, ticked[1],
                                            ticked[2])]]]

Legacy_sanitizePricesData(raw) ==
  LET cleanedOf(ticker) ==
        LET base == Legacy_BASE_TICKER_PRICES[ticker]
            sourceEntries == SliceLast(raw.priceHistory[ticker], PRICE_HISTORY_CAP)
            cleaned[i \in 0..Len(sourceEntries)] ==
              IF i = 0 THEN <<>>
              ELSE LET before == cleaned[i - 1]
                       prev == IF i = 1 THEN base ELSE before[i - 1].price
                   IN  Append(before,
                              [sourceEntries[i] EXCEPT
                                 !.price = boundedPrice(prev, base, 20 * @)])
        IN  IF Len(sourceEntries) < 2
            THEN [i \in 1..50 |-> [price |-> base, timestamp |-> NOW, source |-> "seed"]]
            ELSE cleaned[Len(sourceEntries)]
      history == [t \in Legacy_Tickers |-> cleanedOf(t)]
  IN  [currentPrices |-> [t \in Legacy_Tickers |-> LastOf(history[t]).price],
       priceHistory |-> history]

Legacy_sanitizeChancesData(raw) ==
  LET currentOf(m) ==
        clamp(IF raw.currentChances[m] = 0 THEN Legacy_DEFAULT_MARKET_CHANCES[m]
              ELSE raw.currentChances[m], CHANCE_MIN, CHANCE_MAX)
      historyOf(m) ==
        LET mapped == SliceLast([i \in 1..Len(raw.chanceHistory[m]) |->
                                   clamp(IF raw.chanceHistory[m][i] = 0 THEN currentOf(m)
                                         ELSE raw.chanceHistory[m][i],
                                         CHANCE_MIN, CHANCE_MAX)],
                                CHANCE_HISTORY_CAP)
        IN  IF Len(mapped) = 0 THEN <<currentOf(m)>>
            ELSE [mapped EXCEPT ![Len(mapped)] = currentOf(m)]
  IN  [currentChances |-> [m \in Legacy_MarketIds |-> currentOf(m)],
       chanceHistory |-> [m \in Legacy_MarketIds |-> historyOf(m)]]

\* sanitizeSessionState(raw) for a file the server wrote.
Legacy_sanitizeSessionState(raw, pd) ==
  [skipSessionCount |-> raw.skipSessionCount,
   priceToBeat |-> [t \in Legacy_Tickers |->
                      IF raw.priceToBeat[t] > 0 THEN raw.priceToBeat[t]
                      ELSE pd.currentPrices[t]]]

\* The statements that follow the load of the session file: "Bootstrap
\* baseline for now: start from equal current/beat prices".
Legacy_bootstrapSessionState(ss, pd) ==
  [ss EXCEPT !.skipSessionCount = 0, !.priceToBeat = pd.currentPrices]

\* The process starts: every ledger is read from its file, sanitized and
\* saved; disk holds the files found.
Legacy_Start(files) ==
  \E pd \in {Legacy_sanitizePricesData(files.prices)} :
  \E cd \in {Legacy_sanitizeChancesData(files.chances)} :
  \E ss \in {Legacy_bootstrapSessionState(
               Legacy_sanitizeSessionState(files.session, pd), pd)} :
  \E store \in {[accounts |->
                   [g \in DOMAIN files.accounts.accounts |->
                      Legacy_ensureAccountShape(files.accounts.accounts[g], cd)]]} :
      /\ pricesData' = pd
      /\ chancesData' = cd
      /\ sessionState' = ss
      /\ accountStore' = store
      /\ disk' = [prices |-> pd, chances |-> cd, session |-> ss, accounts |-> store]

Legacy_Restart ==
  /\ ~batch.active
  /\ Legacy_Start(disk)
  /\ last' = [NoResult EXCEPT !.op = "restart"]
  /\ UNCHANGED batch
  /\ UNCHANGED client

\* GET /api/account
Legacy_AccountRoute(guestId) ==
  \E store \in {Legacy_getOrCreateGuestAccount(accountStore, guestId, chancesData)} :
      /\ ~batch.active
      /\ accountStore' = store
      /\ disk' = [disk EXCEPT !.accounts = store]
      /\ last' = [NoResult EXCEPT !.op = "account", !.guestId = guestId,
                    !.created = createdAccount(accountStore, guestId),
                    !.cashBefore = store.accounts[guestId].cashBalance]
      /\ UNCHANGED <<pricesData, chancesData, sessionState, batch>>
      /\ UNCHANGED client

\* POST /api/account/deposit; amount in 1e-6 USD
Legacy_DepositRoute(guestId, amount) ==
  \E store \in {Legacy_getOrCreateGuestAccount(accountStore, guestId, chancesData)} :
  \E ok \in {amount > 0} :
  \E credited \in {Legacy_recalculatePortfolioPnL(
                     [store.accounts[guestId] EXCEPT
                        !.cashBalance = cashAfterDeposit(@, amount)], chancesData)} :
  \E final \in {IF ok THEN [accounts |-> [store.accounts EXCEPT ![guestId] = credited]]
                ELSE store} :
      /\ ~batch.active
      /\ store.accounts[guestId].cashBalance <= Legacy_INITIAL_CASH
      /\ accountStore' = final
      /\ disk' = [disk EXCEPT !.accounts = savedAccounts(store, guestId, final, ok)]
      /\ last' = [NoResult EXCEPT
                    !.op = "deposit", !.guestId = guestId, !.ok = ok,
                    !.error = IF ok THEN "" ELSE "Invalid deposit amount",
                    !.created = createdAccount(accountStore, guestId),
                    !.amount = amount,
                    !.cashBefore = store.accounts[guestId].cashBalance]
      /\ UNCHANGED <<pricesData, chancesData, sessionState, batch>>
      /\ UNCHANGED client

\* POST /api/account/reset: resetAccountStore()
Legacy_ResetRoute(guestId) ==
  /\ ~batch.active
  /\ accountStore' = [accounts |-> <<>>]
  /\ disk' = [disk EXCEPT !.accounts = accountStore']
  /\ last' = [NoResult EXCEPT !.op = "reset", !.guestId = guestId]
  /\ UNCHANGED <<pricesData, chancesData, sessionState, batch>>
  /\ UNCHANGED client

\* POST /api/sessions/skip up to the loop of runSkipSessions; the sessions
\* of a run are counted by the entries of the first ticker's history, two
\* of which are there from the start.
Legacy_SkipSessionsCall(request, maxSessions) ==
  \E count2 \in {clampedCount2(request)} :
      /\ ~batch.active
      /\ Len(pricesData.priceHistory[Legacy_TickerOrder[1]]) + ((count2 + 1) \div 2)
           <= 2 + maxSessions
      /\ batch' = [active |-> TRUE, count2 |-> count2, s |-> 0,
                   skipBefore |-> sessionState.skipSessionCount]
      /\ last' = [NoResult EXCEPT !.op = "skipCall"]
      /\ UNCHANGED <<pricesData, chancesData, sessionState, accountStore, disk>>
      /\ UNCHANGED client

\* One pass of the loop; the pass that ends it saves the session state.
Legacy_SkipSessionStep(draw) ==
  \E next \in {Legacy_skipOneSession(pricesData, chancesData, sessionState,
                                     accountStore, draw)} :
  \E done \in {2 * (batch.s + 1) >= batch.count2} :
      /\ batch.active
      /\ pricesData' = next.pd
      /\ chancesData' = next.cd
      /\ sessionState' = next.ss
      /\ accountStore' = next.store
      /\ disk' = [prices |-> next.pd, chances |-> next.cd, accounts |-> next.store,
                  session |-> IF done THEN next.ss ELSE disk.session]
      /\ batch' = IF done THEN NoBatch ELSE [batch EXCEPT !.s = @ + 1]
      /\ last' = IF done
                 THEN [NoResult EXCEPT !.op = "skipSessions", !.count2 = batch.count2,
                         !.skipBefore = batch.skipBefore]
                 ELSE [NoResult EXCEPT !.op = "skipPass"]
      /\ UNCHANGED client

(***************************************************************************)
(* SpecLegacy: the earlier server with two guests, deposits, resets,       *)
(* session skips and restarts.                                             *)
(***************************************************************************)
MaxLegacySessions == 4   \* skip requests that would pass this session count wait

OtherGuest == "guest-2"        \* an x-guest-id header

Legacy_Draws ==
  { [shock |-> [t \in Legacy_Tickers |-> shock],
     dirs |-> [t \in Legacy_Tickers |-> <<dir, -dir>>],
     mags |-> [t \in Legacy_Tickers |-> <<599, 800>>]] :
      shock \in {0, 1}, dir \in {1} }

Legacy_bootFiles ==
  [prices |->
     [currentPrices |-> Legacy_BASE_TICKER_PRICES,
      priceHistory |->
        [t \in Legacy_Tickers |->
           [i \in 1..2 |-> [price |-> Legacy_BASE_TICKER_PRICES[t], timestamp |-> NOW,
                            source |-> "seed"]]]],
   chances |->
     [currentChances |-> Legacy_DEFAULT_MARKET_CHANCES,
      chanceHistory |-> [m \in Legacy_MarketIds |-> <<Legacy_DEFAULT_MARKET_CHANCES[m]>>]],
   session |-> [skipSessionCount |-> 0, priceToBeat |-> Legacy_BASE_TICKER_PRICES],
   accounts |-> [accounts |-> <<>>]]

InitLegacy ==
  \E pd \in {Legacy_sanitizePricesData(Legacy_bootFiles.prices)} :
  \E cd \in {Legacy_sanitizeChancesData(Legacy_bootFiles.chances)} :
  \E ss \in {Legacy_bootstrapSessionState(
               Legacy_sanitizeSessionState(Legacy_bootFiles.session, pd), pd)} :
      /\ pricesData = pd
      /\ chancesData = cd
      /\ sessionState = ss
      /\ accountStore = [accounts |-> <<>>]
      /\ disk = [prices |-> pd, chances |-> cd, session |-> ss,
                 accounts |-> accountStore]
      /\ batch = NoBatch
      /\ last = NoResult
      /\ client = NoClient

NextLegacy ==
  \/ \E guestId \in {Guest, OtherGuest} : Legacy_AccountRoute(guestId)
  \/ \E guestId \in {Guest, OtherGuest} :
       \E amount \in {250000000, -5000000} : Legacy_DepositRoute(guestId, amount)
  \/ \E guestId \in {Guest, OtherGuest} : Legacy_ResetRoute(guestId)
  \/ \E halves \in {2, 6} : Legacy_SkipSessionsCall(SkipRequest(halves), MaxLegacySessions)
  \/ \E draw \in Legacy_Draws : Legacy_SkipSessionStep(draw)
  \/ Legacy_Restart

SpecLegacy == InitLegacy /\ [][NextLegacy]_vars

\* C12: the session count never goes down, over the whole life of the
\* system and across a restart of the process, which restores the count it
\* last saved.
C12_SkipCountMonotone ==
  [][sessionState'.skipSessionCount >= sessionState.skipSessionCount]_vars

(***************************************************************************)
(* Reloading what was saved.                                               *)
(***************************************************************************)
\* The four ledgers as a start of the process reads them from files.
reloaded(files) ==
  LET pd == sanitizePricesData(files.prices)
      cd == sanitizeChancesData(files.chances)
  IN  [prices |-> pd, chances |-> cd,
       session |-> sanitizeSessionState(files.session, pd),
       accounts |-> loadAccountStore(files.accounts, pd, cd)]

\* C13: a reload is idempotent: for every state the engine has saved,
\* loading the files, sanitizing them and saving them again gives the same
\* prices, chances, session state and accounts, and every sanitizer
\* applied to its own output changes nothing.
C13_IdempotentReload ==
  /\ reloaded(disk) = disk
  /\ reloaded(reloaded(disk)) = reloaded(disk)

(***************************************************************************)
(* SpecMonthly: MONTHLY and DAILY lots of one guest across session skips,  *)
(* with sells and resets.                                                  *)
(***************************************************************************)
MonthlyBodies ==
  { PredictionBody("BUY", "1", "YES", 64000000, 0),
    PredictionBody("BUY", "2", "YES", 42000000, 0),
    PredictionBody("SELL", "1", "YES", 0, 500000) }

InitMonthly == InitWith({0}, {DEFAULT_MARKET_CHANCES})

NextMonthly ==
  \/ \E body \in MonthlyBodies : PredictionTradeRoute(Guest, body)
  \/ ResetRoute(Guest)
  \/ \E halves \in {2, 4} : SkipSessionsCall(Guest, SkipRequest(halves), MaxSessions)
  \/ SkipSessionStep(FlatDraw)

SpecMonthly == InitMonthly /\ [][NextMonthly]_vars

\* The MONTHLY lots among a guest's open prediction lots.
monthlyLots(store, guestId) ==
  FilterSeq(predictionLots(store, guestId),
            LAMBDA p : MARKET_DEFINITIONS[p.marketId].period = "MONTHLY")

\* C14: the settlement sweeper never closes a MONTHLY lot: in every step
\* other than the guest's own accepted SELL or reset, and so in every
\* session pass however many sessions the lot has been held, each open
\* MONTHLY lot stays open with the same contracts and investedAmount, and a
\* session pass records no SETTLEMENT for a MONTHLY market.
C14_MonthlyStaysOpen ==
  [][ \A g \in DOMAIN accountStore.accounts :
        /\ \A i \in 1..Len(monthlyLots(accountStore, g)) :
             LET lot == monthlyLots(accountStore, g)[i]
             IN  \/ /\ last'.guestId = g
                    /\ \/ last'.op = "reset"
                       \/ last'.op = "predictionTrade" /\ last'.side = "SELL" /\ last'.ok
                 \/ \E k \in 1..Len(monthlyLots(accountStore', g)) :
                      /\ monthlyLots(accountStore', g)[k].id = lot.id
                      /\ monthlyLots(accountStore', g)[k].contracts = lot.contracts
                      /\ monthlyLots(accountStore', g)[k].investedAmount = lot.investedAmount
        /\ SessionPass =>
             \A k \in 1..Len(newOrders(g)) :
               MARKET_DEFINITIONS[newOrders(g)[k].marketId].period # "MONTHLY"
    ]_vars

\* C14 witness: a session pass has just brought a MONTHLY lot to three
\* sessions held or more, and the lot is open.
C14_Witness ==
  /\ last.op \in {"skipPass", "skipSessions"}
  /\ \E g \in DOMAIN accountStore.accounts :
       \E i \in 1..Len(monthlyLots(accountStore, g)) :
         sessionState.skipSessionCount - monthlyLots(accountStore, g)[i].openedSession
           >= SETTLE_AFTER_SESSIONS

(***************************************************************************)
(* SpecDesk: two guests at the server of part_004; the first trades with   *)
(* well-formed and with malformed sides and outcomes, both deposit, rename *)
(* and reset.                                                              *)
(***************************************************************************)
DeskPredictionBodies ==
  { PredictionBody("HOLD", "2", "YES", 42000000, 0),
    PredictionBody("BUY", "2", "MAYBE", 42000000, 0),
    PredictionBody("SELL", "2", "YES", 0, 500000) }

DeskSyntheticBodies ==
  { SyntheticBody("HOLD", "DDR5", 400000000, 0) }

DeskName == [text |-> "trader_1", length |-> 8, wordChars |-> TRUE]

InitDesk == InitWith({0}, {DEFAULT_MARKET_CHANCES})

NextDesk ==
  \/ \E body \in DeskPredictionBodies : PredictionTradeRoute(Guest, body)
  \/ \E body \in DeskSyntheticBodies : SyntheticTradeRoute(Guest, body)
  \/ \E guestId \in {Guest, OtherGuest} : DepositRoute(guestId, 250000000)
  \/ \E guestId \in {Guest, OtherGuest} : UsernameRoute(guestId, DeskName)
  \/ \E guestId \in {Guest, OtherGuest} : ResetRoute(guestId)

SpecDesk == InitDesk /\ [][NextDesk]_vars

\* The requests that act on the account of one guest.
AccountOps == {"predictionTrade", "syntheticTrade", "deposit", "username", "reset"}

\* C15: accounts are isolated: a trade, deposit, username change or reset
\* of one guest leaves the account of every other guest as it was, and
\* that account goes on existing.
C15_AccountIsolation ==
  [][ last'.op \in AccountOps =>
        \A g \in DOMAIN accountStore.accounts \ {last'.guestId} :
          /\ g \in DOMAIN accountStore'.accounts
          /\ accountStore'.accounts[g] = accountStore.accounts[g]
    ]_vars

\* C16: a trade, a deposit and a username change leave every price, price
\* history, chance, chance history and field of the session state as they
\* were, and the session state (skipSessionCount, lastSessionSlotIndex,
\* lastSessionAt, priceToBeat) changes in session-advance steps only, so
\* that a manual price override leaves it unchanged too.
C16_SessionStateFrame ==
  [][/\ last'.op \in {"predictionTrade", "syntheticTrade", "deposit", "username"}
          => UNCHANGED <<pricesData, chancesData, sessionState>>
     /\ last'.op = "updatePrice" => UNCHANGED sessionState
     /\ sessionState' # sessionState => SessionPass]_vars

\* The step is a whole operation that changed the state of the engine.
StateChangingOp ==
  /\ last'.op \in {"updatePrice", "skipSessions", "predictionTrade", "syntheticTrade",
                   "deposit", "username", "reset"}
  /\ last'.ok

\* C17: every state-changing operation (price override, session skip,
\* trade, deposit, username change, reset) is followed, before the next
\* operation is processed, by a broadcast of the aggregate snapshot to all
\* viewers: the operation ends with a broadcast of the payload built from
\* the state it leaves.
C17_BroadcastAfterChange ==
  [][StateChangingOp =>
       last'.broadcast = <<buildLivePayload(pricesData', chancesData', sessionState')>>]_vars

(***************************************************************************)
(* SpecFaulty: price overrides and session skips on a disk whose writes    *)
(* may fail.  saveJsonFile catches the error of fs.writeFileSync, logs it  *)
(* and returns.                                                            *)
(***************************************************************************)
\* socket "updatePrice" and POST /api/prices when, of the files the handler
\* saves ("prices" by addPriceEntry, "chances" by updateChancesForTicker),
\* those in written are written and the others fail.
UpdatePriceWriting(source, ticker, price20, coin, mags, written) ==
  \E added \in {addPriceEntry(pricesData, chancesData, ticker, price20,
                              source, NOW, coin, mags)} :
      /\ ~batch.active
      /\ ticker \in Tickers
      /\ Len(pricesData.priceHistory[ticker]) < MaxPriceEntries
      /\ pricesData' = added[1]
      /\ chancesData' = added[2]
      /\ disk' = [disk EXCEPT
                    !.prices = IF "prices" \in written THEN added[1] ELSE @,
                    !.chances = IF "chances" \in written THEN added[2] ELSE @]
      /\ last' = [NoResult EXCEPT !.op = "updatePrice",
                    !.broadcast = <<buildLivePayload(added[1], added[2], sessionState)>>]
      /\ UNCHANGED <<sessionState, accountStore, batch>>
      /\ UNCHANGED client

MaxFaultySessions == 2   \* skip requests that would pass this session count wait

InitFaulty == InitWith({0}, {DEFAULT_MARKET_CHANCES})

NextFaulty ==
  \/ \E ticker \in Tickers, written \in SUBSET {"prices", "chances"} :
       UpdatePriceWriting("api-update", ticker, 21 * BASE_TICKER_PRICES[ticker], 1,
                          <<599, 200>>, written)
  \/ SkipSessionsCall(Guest, SkipRequest(2), MaxFaultySessions)
  \/ SkipSessionStep(FlatDraw)

SpecFaulty == InitFaulty /\ [][NextFaulty]_vars

\* C18: a broadcast is emitted only after the writes of the operation have
\* succeeded: also when writes can fail, no broadcast reports prices,
\* chances or a priceToBeat that are not on disk.
C18_BroadcastIsOnDisk ==
  last.broadcast # <<>> =>
    /\ last.broadcast[1].prices = disk.prices.currentPrices
    /\ last.broadcast[1].histories = disk.prices.priceHistory
    /\ last.broadcast[1].chances = disk.chances.currentChances
    /\ last.broadcast[1].chanceHistories = disk.chances.chanceHistory
    /\ last.broadcast[1].priceToBeat = disk.session.priceToBeat

\* The trade request of the step names no side, or (for a prediction
\* trade) no outcome, that exists.
MalformedTradeRequest ==
  \/ /\ last'.op \in {"predictionTrade", "syntheticTrade"}
     /\ last'.requestSide \notin {"BUY", "SELL"}
  \/ /\ last'.op = "predictionTrade"
     /\ last'.requestOutcome \notin {"YES", "NO"}

\* C19: a trade request whose side is neither BUY nor SELL, or whose
\* outcome is neither YES nor NO, is rejected as invalid input before
\* anything is changed: it is never executed as a BUY or as a YES trade,
\* and the guest's cash, lots and order histories stay as they were.
C19_MalformedTradeRejected ==
  [][MalformedTradeRequest =>
       /\ ~last'.ok
       /\ last'.guestId \in DOMAIN accountStore.accounts =>
            /\ cashBalanceOf(accountStore', last'.guestId)
                 = cashBalanceOf(accountStore, last'.guestId)
            /\ predictionLots(accountStore', last'.guestId)
                 = predictionLots(accountStore, last'.guestId)
            /\ syntheticLots(accountStore', last'.guestId)
                 = syntheticLots(accountStore, last'.guestId)]_vars

(***************************************************************************)
(* Loading an accounts file that the server did not write.  A number of    *)
(* the file is [finite, hundredths]: whether Number(x) is finite and, if   *)
(* so, its value in hundredths of the unit in which the model keeps the    *)
(* field, so that the file can hold more decimals than the server keeps.   *)
(***************************************************************************)
RawNumber(hundredths) == [finite |-> TRUE, hundredths |-> hundredths]
NotANumber == [finite |-> FALSE, hundredths |-> 0]

\* Number.isFinite(x) && x > 0
finitePositive(raw) == raw.finite /\ raw.hundredths > 0

\* parseFloat(x.toFixed(n)) for x >= 0, n the decimals the server keeps
toFixedNumber(raw) == RoundDiv(raw.hundredths, 100)

\* Math.max(Number(raw.nextPositionId) || 1, maxId + 1); the counter of the
\* file is a whole number or no number
nextIdOfFile(raw, maxId) ==
  Max(IF raw.finite /\ raw.hundredths # 0 THEN raw.hundredths \div 100 ELSE 1, maxId + 1)

\* sanitizePredictionState(raw) on any file: a lot is tested before its
\* numbers are rounded.
sanitizePredictionFile(raw) ==
  LET kept == FilterSeq(raw.openPositions,
                LAMBDA p : /\ p.marketId \in MarketIds
                           /\ finitePositive(p.contracts)
                           /\ finitePositive(p.avgEntryPrice)
                           /\ finitePositive(p.investedAmount))
      openPositions ==
        [i \in 1..Len(kept) |->
           [kept[i] EXCEPT !.contracts = toFixedNumber(@),
                           !.avgEntryPrice = toFixedNumber(@),
                           !.investedAmount = toFixedNumber(@),
                           !.openedSession = Max(0, @)]]
      orderHistory ==
        FilterSeq(raw.orderHistory,
                  LAMBDA o : /\ o.marketId \in MarketIds \/ o.type = "SETTLEMENT"
                             /\ o.type \in {"BUY", "SELL", "SETTLEMENT"})
  IN  [realizedPnL |-> 0,
       nextPositionId |-> nextIdOfFile(raw.nextPositionId, MaxId(openPositions)),
       nextOrderId |-> nextIdOfFile(raw.nextOrderId, MaxId(orderHistory)),
       openPositions |-> openPositions,
       orderHistory |-> SliceLast(orderHistory, ORDER_HISTORY_CAP)]

\* sanitizeSyntheticState(raw) on any file.
sanitizeSyntheticFile(raw) ==
  LET kept == FilterSeq(raw.openPositions,
                LAMBDA p : /\ p.ticker \in Tickers
                           /\ finitePositive(p.units)
                           /\ finitePositive(p.avgEntryPrice)
                           /\ finitePositive(p.investedAmount))
      openPositions ==
        [i \in 1..Len(kept) |->
           [kept[i] EXCEPT !.units = toFixedNumber(@),
                           !.avgEntryPrice = toFixedNumber(@),
                           !.investedAmount = toFixedNumber(@)]]
  IN  [nextPositionId |-> nextIdOfFile(raw.nextPositionId, MaxId(openPositions)),
       nextOrderId |-> nextIdOfFile(raw.nextOrderId, 0),
       openPositions |-> openPositions,
       orderHistory |-> <<>>]

\* ensureAccountShape(account) on any file
ensureAccountShapeOfFile(raw, pd, cd) ==
  recalculatePortfolioPnL(
    [username |-> "DEMO",
     cashBalance |-> IF raw.cashBalance.finite
                     THEN toFixedNumber([raw.cashBalance EXCEPT !.hundredths = Max(0, @)])
                     ELSE INITIAL_CASH,
     portfolioPnL |-> 0,
     synthetic |-> sanitizeSyntheticFile(raw.synthetic),
     prediction |-> sanitizePredictionFile(raw.prediction)], pd, cd)

\* The process starts on an accounts file with one record, that of the
\* default guest; the other files are those the server saved.
LoadAccountFile(raw) ==
  \E pd \in {sanitizePricesData(disk.prices)} :
  \E cd \in {sanitizeChancesData(disk.chances)} :
  \E ss \in {sanitizeSessionState(disk.session, pd)} :
  \E store \in {[accounts |-> (Guest :> ensureAccountShapeOfFile(raw, pd, cd))]} :
      /\ ~batch.active
      /\ DOMAIN accountStore.accounts = {}
      /\ pricesData' = pd
      /\ chancesData' = cd
      /\ sessionState' = ss
      /\ accountStore' = store
      /\ disk' = [prices |-> pd, chances |-> cd, session |-> ss, accounts |-> store]
      /\ last' = [NoResult EXCEPT !.op = "load"]
      /\ UNCHANGED batch
      /\ UNCHANGED client

(***************************************************************************)
(* SpecLoad: the server starts on hand-made accounts files, then serves    *)
(* the account and takes a deposit.                                        *)
(***************************************************************************)
\* The records tried: cash below zero, with more decimals than cents, or
\* no number; counters that are no number, 1 or negative; lots that are
\* sound (id 3), of less than 0.0001 contracts bought for less than 0.0001
\* USD (id 5), of negative size (6), on an unknown market (7) or without a
\* finite entry price (8); orders that are sound, of an unknown type or on
\* an unknown market; synthetic lots on a known and on an unknown ticker.
RawAccountFiles ==
  LET lot(id, marketId, contracts, avgEntryPrice, investedAmount) ==
        [id |-> id, marketId |-> marketId, outcome |-> "YES", contracts |-> contracts,
         avgEntryPrice |-> avgEntryPrice, investedAmount |-> investedAmount,
         targetPrice |-> BASE_TICKER_PRICES["DDR5"], openedSession |-> 0]
      sound == lot(3, "2", RawNumber(100000000), RawNumber(420000), RawNumber(42000000))
      predictionLots5 ==
        { sound,
          lot(5, "2", RawNumber(20), RawNumber(420000), RawNumber(30)),
          lot(6, "2", RawNumber(-100000000), RawNumber(420000), RawNumber(42000000)),
          lot(7, "9", RawNumber(100000000), RawNumber(420000), RawNumber(42000000)),
          lot(8, "2", RawNumber(100000000), NotANumber, RawNumber(42000000)) }
      unitLot(id, ticker) ==
        [id |-> id, ticker |-> ticker, units |-> RawNumber(100000000),
         avgEntryPrice |-> RawNumber(38067000), investedAmount |-> RawNumber(38067000)]
      order(id, type, marketId) ==
        [id |-> id, type |-> type, marketId |-> marketId, outcome |-> "YES",
         contracts |-> 1000000, price |-> 4200, amount |-> 420000, realizedPnl |-> 0,
         result |-> "", session |-> 0, note |-> -1]
  IN  { [cashBalance |-> cash,
         prediction |-> [nextPositionId |-> counter, nextOrderId |-> counter,
                         openPositions |-> lots, orderHistory |-> orders],
         synthetic |-> [nextPositionId |-> counter, nextOrderId |-> counter,
                        openPositions |-> units]] :
          cash \in {RawNumber(-50000000), RawNumber(12345678), NotANumber},
          counter \in {NotANumber, RawNumber(100), RawNumber(-500)},
          lots \in {<<>>} \cup {<<a>> : a \in predictionLots5}
                     \cup {<<sound, b>> : b \in predictionLots5},
          orders \in {<<>>, <<order(9, "BUY", "2")>>, <<order(11, "GIFT", "2")>>,
                      <<order(12, "BUY", "9")>>},
          units \in {<<>>, <<unitLot(2, "DDR5")>>, <<unitLot(4, "DDR3")>>} }

InitLoad == InitWith({0}, {DEFAULT_MARKET_CHANCES})

NextLoad ==
  \/ \E raw \in RawAccountFiles : LoadAccountFile(raw)
  \/ AccountRoute(Guest)
  \/ DepositRoute(Guest, 250000000)

SpecLoad == InitLoad /\ [][NextLoad]_vars

\* C20: whatever account record is read (a negative or non-finite cash
\* balance, bad lots, unknown instruments, malformed orders, wrong id
\* counters), the working account has a cash balance of at least 0, only
\* lots with positive quantity, entry price and invested amount on known
\* instruments, and next-id counters above the id of every lot and order.
C20_SanitizedAccount ==
  \A g \in DOMAIN accountStore.accounts :
    LET account == accountStore.accounts[g]
        positive(p, quantity) ==
          quantity > 0 /\ p.avgEntryPrice > 0 /\ p.investedAmount > 0
    IN  /\ account.cashBalance >= 0
        /\ \A i \in 1..Len(account.prediction.openPositions) :
             LET p == account.prediction.openPositions[i]
             IN  /\ positive(p, p.contracts)
                 /\ p.marketId \in MarketIds
                 /\ p.id < account.prediction.nextPositionId
        /\ \A i \in 1..Len(account.synthetic.openPositions) :
             LET p == account.synthetic.openPositions[i]
             IN  /\ positive(p, p.units)
                 /\ p.ticker \in Tickers
                 /\ p.id < account.synthetic.nextPositionId
        /\ \A i \in 1..Len(account.prediction.orderHistory) :
             account.prediction.orderHistory[i].id < account.prediction.nextOrderId
        /\ \A i \in 1..Len(account.synthetic.orderHistory) :
             account.synthetic.orderHistory[i].id < account.synthetic.nextOrderId

(***************************************************************************)
(* The life of an account: lazy creation, reset.                           *)
(***************************************************************************)
\* The account is a default one: the starting cash of its server, no open
\* lot and no order on any of its books.
isFreshAccount(account) ==
  /\ account.cashBalance \in {INITIAL_CASH, Legacy_INITIAL_CASH}
  /\ account.portfolioPnL = 0
  /\ account.prediction.openPositions = <<>>
  /\ account.prediction.orderHistory = <<>>
  /\ account.prediction.realizedPnL = 0
  /\ "synthetic" \in DOMAIN account =>
       /\ account.synthetic.openPositions = <<>>
       /\ account.synthetic.orderHistory = <<>>

\* C21: GET /api/account for a guest id without an account adds exactly
\* that guest's account to the store, with the starting cash and empty
\* books and histories; an account that exists before a step exists after
\* it; and after a reset the resetting guest's account exists and is a
\* fresh default one.
C21_AccountLifecycle ==
  [][ /\ (last'.op = "account" /\ last'.created) =>
           /\ DOMAIN accountStore'.accounts
                = DOMAIN accountStore.accounts \cup {last'.guestId}
           /\ isFreshAccount(accountStore'.accounts[last'.guestId])
      /\ DOMAIN accountStore.accounts \subseteq DOMAIN accountStore'.accounts
      /\ last'.op = "reset" =>
           /\ last'.guestId \in DOMAIN accountStore'.accounts
           /\ isFreshAccount(accountStore'.accounts[last'.guestId])
    ]_vars

(***************************************************************************)
(* SpecMark: lots on both books while price overrides move the prices and  *)
(* the chances.                                                            *)
(***************************************************************************)
MarkPredictionBodies ==
  { PredictionBody("BUY", "1", "YES", 64000000, 0),      \* $64: 100 contracts at 0.64
    PredictionBody("BUY", "2", "NO", 29000000, 0),       \* $29 of NO on market 2
    PredictionBody("SELL", "1", "YES", 0, 400000) }      \* 40 contracts

MarkSyntheticBodies == { SyntheticBody("BUY", "DDR5", 400000000, 0) }

MarkPrices == {20 * 38500}                               \* $38.50

InitMark == InitWith({0}, LedgerChances)

NextMark ==
  \/ \E body \in MarkPredictionBodies : PredictionTradeRoute(Guest, body)
  \/ \E body \in MarkSyntheticBodies : SyntheticTradeRoute(Guest, body)
  \/ \E price20 \in MarkPrices : UpdatePrice("manual", "DDR5", price20, 1, <<300, 300>>)
  \/ AccountRoute(Guest)

SpecMark == InitMark /\ [][NextMark]_vars

\* The unrealized P&L of an account's open lots at the given prices and
\* chances, in 1e-4 USD, each lot's mark value cut to the fourth decimal.
unrealizedOfLots(account, pd, cd) ==
  SumSeq(account.prediction.openPositions,
         LAMBDA p : MulDiv(p.contracts,
                           getCurrentContractPrice(cd, p.marketId, p.outcome), 10000)[1]
                    - p.investedAmount)
  + SumSeq(account.synthetic.openPositions,
           LAMBDA p : MulDiv(p.units, getSyntheticQuote(pd, p.ticker), 100000)[1]
                      - p.investedAmount)

\* C22: in every state the cached portfolioPnL of every account is the sum
\* over its open lots, on both books, of quantity * current mark price -
\* investedAmount at the live prices and chances, to the cent (half a cent
\* of rounding and the fourth decimal of each lot aside).
C22_PortfolioPnLIsLive ==
  \A g \in DOMAIN accountStore.accounts :
    LET account == accountStore.accounts[g]
    IN  Abs(100 * account.portfolioPnL
            - unrealizedOfLots(account, pricesData, chancesData))
          <= 50 + Len(account.prediction.openPositions)
                + Len(account.synthetic.openPositions)

\* The step is an accepted prediction trade.
PredictionFill == last'.op = "predictionTrade" /\ last'.ok

\* C23: for every market and every chance the ledger reaches, the YES price
\* is chance / 100 and the NO price (100 - chance) / 100, both lie in
\* 0.01..0.99 and they add up to 1; and every accepted prediction trade is
\* filled at that price of the traded outcome: the order records it, a BUY
\* opens amount / price contracts at that entry price, a SELL pays
\* contracts * price.
C23_ContractPrices ==
  [][ /\ \A m \in MarketIds :
           LET yesPrice == getCurrentContractPrice(chancesData', m, "YES")
               noPrice == getCurrentContractPrice(chancesData', m, "NO")
           IN  /\ yesPrice = chancesData'.currentChances[m]
               /\ noPrice = 10000 - chancesData'.currentChances[m]
               /\ 100 <= yesPrice /\ yesPrice <= 9900
               /\ 100 <= noPrice /\ noPrice <= 9900
               /\ yesPrice + noPrice = 10000
      /\ PredictionFill =>
           LET prediction == accountStore'.accounts[last'.guestId].prediction
               order == prediction.orderHistory[1]
               chance == chancesData.currentChances[last'.instrument]
               price == IF last'.outcome = "YES" THEN chance ELSE 10000 - chance
           IN  /\ order.price = price
               /\ order.outcome = last'.outcome
               /\ last'.side = "BUY" =>
                    LET lot == LastOf(prediction.openPositions)
                    IN  /\ lot.avgEntryPrice = price
                        /\ lot.contracts = MulDivRound(last'.amount, 100, price)
                        /\ order.contracts = lot.contracts
               /\ last'.side = "SELL" =>
                    order.amount = MulDivRound(order.contracts, price, 10000)
    ]_vars

\* C23 witness: a NO lot has just been bought at 0.01 on a market whose
\* chance stands on the upper clamp.
C23_Witness ==
  /\ last.op = "predictionTrade" /\ last.ok /\ last.side = "BUY" /\ last.outcome = "NO"
  /\ chancesData.currentChances[last.instrument] = CHANCE_MAX
  /\ LastOf(accountStore.accounts[last.guestId].prediction.openPositions).avgEntryPrice
       = PRICE_MIN

(***************************************************************************)
(* SpecStep: MONTHLY and DAILY lots held across session passes whose       *)
(* prices move.                                                            *)
(***************************************************************************)
StepPredictionBodies ==
  { PredictionBody("BUY", "1", "YES", 64000000, 0),
    PredictionBody("BUY", "2", "YES", 42000000, 0),
    PredictionBody("BUY", "4", "NO", 10000000, 0) }

InitStep == InitWith({0}, {DEFAULT_MARKET_CHANCES})

NextStep ==
  \/ \E body \in StepPredictionBodies : PredictionTradeRoute(Guest, body)
  \/ \E halves \in {2, 4} : SkipSessionsCall(Guest, SkipRequest(halves), MaxSessions)
  \/ \E draw \in SettleDraws : SkipSessionStep(draw)

SpecStep == InitStep /\ [][NextStep]_vars

\* C24: in one session pass the prices and chances tick first, the
\* settlement check follows, the priceToBeat resync and the DAILY chance
\* reset come last and only on a pass that lands on slot 0.  So: a lot
\* settled in the pass wins or loses by the pass's new price against the
\* lot's own targetPrice; the unrealized P&L the sweep caches is that of
\* the new prices and ticked chances; on slot 0 priceToBeat becomes the new
\* prices and the DAILY chances restart at 50, on another slot priceToBeat
\* stays and the ticked DAILY chances stand; and the pass counts exactly
\* one session.
C24_StepOrder ==
  [][ SessionPass =>
        LET slotIndex == sessionState'.lastSessionSlotIndex
            daily == {DailyMarketIds[1], DailyMarketIds[2]}
        IN
        /\ sessionState'.skipSessionCount = sessionState.skipSessionCount + 1
        /\ \A g \in DOMAIN accountStore.accounts :
             /\ \A i \in 1..Len(dailyLots(accountStore, g)) :
                  LET lot == dailyLots(accountStore, g)[i]
                      newPrice ==
                        pricesData'.currentPrices[MARKET_DEFINITIONS[lot.marketId].category]
                      won == IF newPrice > lot.targetPrice THEN "YES" ELSE "NO"
                  IN  lotGone(g, lot) =>
                        \E k \in 1..Len(newOrders(g)) :
                          /\ newOrders(g)[k].type = "SETTLEMENT"
                          /\ newOrders(g)[k].marketId = lot.marketId
                          /\ newOrders(g)[k].outcome = lot.outcome
                          /\ newOrders(g)[k].result
                               = (IF lot.outcome = won THEN "WIN" ELSE "LOSS")
             /\ (slotIndex # 0 \/ Len(dailyLots(accountStore', g)) = 0) =>
                  LET account == accountStore'.accounts[g]
                  IN  Abs(100 * account.portfolioPnL
                          - unrealizedOfLots(account, pricesData', chancesData'))
                        <= 50 + Len(account.prediction.openPositions)
        /\ slotIndex = 0 =>
             /\ sessionState'.priceToBeat = pricesData'.currentPrices
             /\ \A m \in daily :
                  /\ chancesData'.currentChances[m] = NEUTRAL_CHANCE
                  /\ chancesData'.chanceHistory[m] = <<NEUTRAL_CHANCE>>
        /\ slotIndex # 0 =>
             /\ sessionState'.priceToBeat = sessionState.priceToBeat
             /\ \A m \in daily :
                  /\ chancesData'.currentChances[m] # chancesData.currentChances[m]
                  /\ LastOf(chancesData'.chanceHistory[m]) = chancesData'.currentChances[m]
    ]_vars

\* C24 witness: the pass that landed on slot 0 has settled a YES lot as a
\* WIN against its own target while priceToBeat was resynced to the new,
\* higher price, and a MONTHLY lot stays open.
C24_Witness ==
  \E g \in DOMAIN accountStore.accounts :
    /\ last.op \in {"skipPass", "skipSessions"}
    /\ sessionState.lastSessionSlotIndex = 0
    /\ sessionState.priceToBeat["DDR5"] = pricesData.currentPrices["DDR5"]
    /\ Len(monthlyLots(accountStore, g)) > 0
    /\ Len(accountStore.accounts[g].prediction.orderHistory) > 0
    /\ LET o == accountStore.accounts[g].prediction.orderHistory[1]
       IN  /\ o.type = "SETTLEMENT" /\ o.outcome = "YES" /\ o.result = "WIN"
           /\ o.session = sessionState.skipSessionCount

\* Instant a is later than instant b.
laterThan(a, b) == a.day > b.day \/ (a.day = b.day /\ a.minute > b.minute)

\* C25: every pass of the session loop adds exactly 1 to skipSessionCount,
\* moves lastSessionSlotIndex to (old index + 1) mod 3 and sets
\* lastSessionAt to the next slot instant: the next slot of the same day
\* when the old index is below 2, slot 0 of the next day when it is 2; so
\* lastSessionAt is later after the pass than before it.
C25_AdvanceOneSlot ==
  [][ SessionPass =>
        LET old == sessionState.lastSessionSlotIndex
            new == sessionState'.lastSessionSlotIndex
        IN  /\ sessionState'.skipSessionCount = sessionState.skipSessionCount + 1
            /\ new = (old + 1) % 3
            /\ sessionState'.lastSessionAt.minute = SESSION_SLOTS_MINUTES[new + 1]
            /\ sessionState'.lastSessionAt.day =
                 (IF old < 2 THEN sessionState.lastSessionAt.day
                  ELSE sessionState.lastSessionAt.day + 1)
            /\ laterThan(sessionState'.lastSessionAt, sessionState.lastSessionAt)
    ]_vars

\* C25 witness: the pass from the last slot of a day has just moved the
\* clock to slot 0 of the next day.
C25_Witness ==
  /\ last.op \in {"skipPass", "skipSessions"}
  /\ sessionState.lastSessionSlotIndex = 0
  /\ sessionState.lastSessionAt = [day |-> 1, minute |-> SESSION_SLOTS_MINUTES[1]]
  /\ sessionState.skipSessionCount = 3

\* C26: at every point of a run, between two passes of a skip batch
\* included, the session file holds the session state the server has in
\* memory, and the skipSessionCount it holds is not behind the session
\* number of any SETTLEMENT order in the account file.
C26_SessionStatePersisted ==
  /\ disk.session = sessionState
  /\ \A g \in DOMAIN disk.accounts.accounts :
       \A i \in 1..Len(disk.accounts.accounts[g].prediction.orderHistory) :
         LET order == disk.accounts.accounts[g].prediction.orderHistory[i]
         IN  order.type = "SETTLEMENT" => order.session <= disk.session.skipSessionCount

\* C27: every accepted BUY, on either book and of any positive amount,
\* lowers the cash balance by exactly the investedAmount of the lot it
\* creates (cash in cents, investedAmount in 1e-4 USD).
C27_BuyDebitsInvested ==
  [][ AcceptedBuy(last') =>
        LET account == accountStore'.accounts[last'.guestId]
            lot == IF last'.op = "predictionTrade"
                   THEN LastOf(account.prediction.openPositions)
                   ELSE LastOf(account.synthetic.openPositions)
        IN  100 * (last'.cashBefore - account.cashBalance) = lot.investedAmount
    ]_vars

(***************************************************************************)
(* SpecLots: lots of both books bought, sold in part, held across a day of *)
(* sessions with rising prices, and reloaded.                              *)
(***************************************************************************)
LotsPredictionBodies ==
  { PredictionBody("BUY", "1", "YES", 64000000, 0),      \* $64: 100 contracts at 0.64
    PredictionBody("BUY", "2", "YES", 42000000, 0),      \* $42: 100 contracts at 0.42
    PredictionBody("SELL", "1", "YES", 0, 400000) }      \* 40 contracts

LotsSyntheticBodies == { SyntheticBody("BUY", "DDR5", 400000000, 0) }

RisingDraw == [Draw(1, 1, 400) EXCEPT !.shock["DDR4"] = -1]

InitLots == InitWith({0}, {DEFAULT_MARKET_CHANCES})

NextLots ==
  \/ \E body \in LotsPredictionBodies : PredictionTradeRoute(Guest, body)
  \/ \E body \in LotsSyntheticBodies : SyntheticTradeRoute(Guest, body)
  \/ SkipSessionsCall(Guest, SkipRequest(6), MaxSessions)
  \/ SkipSessionStep(RisingDraw)
  \/ Restart

SpecLots == InitLots /\ [][NextLots]_vars

\* The lot with the given id among lots, as a sequence of at most one lot.
lotWithId(lots, id) == FilterSeq(lots, LAMBDA p : p.id = id)

\* C28: an accepted BUY appends exactly one lot to its book and leaves the
\* lots already there as they were; the new prediction lot carries the
\* priceToBeat of its ticker and the skipSessionCount of the moment; and a
\* prediction lot that is open before and after a step (a partial SELL, a
\* session pass with or without resync, a restart, any other request) has
\* the same targetPrice, openedSession, market and outcome after it.
C28_LotsAreFrozen ==
  [][ /\ (AcceptedBuy(last') /\ last'.op = "predictionTrade") =>
           LET before == predictionLots(accountStore, last'.guestId)
               after == predictionLots(accountStore', last'.guestId)
               lot == LastOf(after)
           IN  /\ Len(after) = Len(before) + 1
               /\ SubSeq(after, 1, Len(before)) = before
               /\ \A i \in 1..Len(before) : before[i].id # lot.id
               /\ lot.targetPrice
                    = sessionState.priceToBeat[MARKET_DEFINITIONS[lot.marketId].category]
               /\ lot.openedSession = sessionState.skipSessionCount
      /\ (AcceptedBuy(last') /\ last'.op = "syntheticTrade") =>
           LET before == syntheticLots(accountStore, last'.guestId)
               after == syntheticLots(accountStore', last'.guestId)
           IN  /\ Len(after) = Len(before) + 1
               /\ SubSeq(after, 1, Len(before)) = before
               /\ \A i \in 1..Len(before) : before[i].id # LastOf(after).id
      /\ \A g \in DOMAIN accountStore.accounts :
           \A i \in 1..Len(predictionLots(accountStore, g)) :
             LET lot == predictionLots(accountStore, g)[i]
                 kept == lotWithId(predictionLots(accountStore', g), lot.id)
             IN  (Len(kept) > 0 /\ ~lotGone(g, lot)) =>
                   /\ Len(kept) = 1
                   /\ kept[1].targetPrice = lot.targetPrice
                   /\ kept[1].openedSession = lot.openedSession
                   /\ kept[1].marketId = lot.marketId
                   /\ kept[1].outcome = lot.outcome
    ]_vars

\* C28 witness: a lot opened at session 0 and sold in part is still open
\* after the resync of a later session pass moved priceToBeat away from the
\* lot's target.
C28_Witness ==
  \E g \in DOMAIN accountStore.accounts :
    \E i \in 1..Len(predictionLots(accountStore, g)) :
      LET lot == predictionLots(accountStore, g)[i]
      IN  /\ lot.openedSession = 0
          /\ lot.contracts = 600000
          /\ sessionState.skipSessionCount = 3
          /\ lot.targetPrice = BASE_TICKER_PRICES["DDR5"]
          /\ sessionState.priceToBeat["DDR5"] > lot.targetPrice

(***************************************************************************)
(* SpecRealized: every kind of request that moves an account's cash, and a *)
(* day of sessions that settles its DAILY lot.  The synthetic trades and   *)
(* the deposit are explored after that day, when the accumulator holds its *)
(* results.                                                                *)
(***************************************************************************)
RealizedPredictionBodies ==
  { PredictionBody("BUY", "1", "YES", 64000000, 0),      \* $64: 100 contracts at 0.64
    PredictionBody("BUY", "2", "YES", 42000000, 0),      \* $42: 100 contracts at 0.42
    PredictionBody("SELL", "1", "YES", 0, 333333) }      \* 33.3333 contracts

RealizedSyntheticBodies ==
  { SyntheticBody("BUY", "DDR5", 400000000, 0),           \* $400
    SyntheticBody("SELL", "DDR5", 0, 10507700) }          \* all of its units but 0.000089

InitRealized == InitWith({0}, {DEFAULT_MARKET_CHANCES})

NextRealized ==
  \/ \E body \in RealizedPredictionBodies : PredictionTradeRoute(Guest, body)
  \/ \E body \in RealizedSyntheticBodies :
       sessionState.skipSessionCount >= 3 /\ SyntheticTradeRoute(Guest, body)
  \/ sessionState.skipSessionCount >= 3 /\ DepositRoute(Guest, 250000000)
  \/ /\ Len(pricesData.priceHistory["DDR5"]) < MaxPriceEntries - 1
     /\ UpdatePrice("manual", "DDR5", 20 * 38500, 1, <<300, 300>>)
  \/ SkipSessionsCall(Guest, SkipRequest(6), MaxSessions)
  \/ SkipSessionStep(RisingDraw)

SpecRealized == InitRealized /\ [][NextRealized]_vars

\* The realized P&L accumulator of a guest (nil without an account), and
\* the realized P&L its prediction order history adds up to.
realizedOf(store, guestId) ==
  IF guestId \in DOMAIN store.accounts
  THEN store.accounts[guestId].prediction.realizedPnL ELSE 0

realizedOfOrders(orders) ==
  SumSeq(FilterSeq(orders, LAMBDA o : o.type \in {"SELL", "SETTLEMENT"}),
         LAMBDA o : o.realizedPnl)

\* C29: the realized P&L accumulator of the prediction book moves only in
\* an accepted prediction SELL, by the realizedPnl of the SELL order
\* (proceeds less the cost removed), and in a session pass, by the
\* realizedPnl of the pass's SETTLEMENT orders (payout less the lot's
\* investedAmount); a BUY, a synthetic trade, a deposit and a rejected
\* request leave it as it was; and it always equals the sum of realizedPnl
\* over the SELL and SETTLEMENT orders of the account's order history.  (A
\* reset replaces the account: accumulator and history start again.)
C29_RealizedAccumulator ==
  [][ \A g \in DOMAIN accountStore'.accounts :
        LET before == realizedOf(accountStore, g)
            after == realizedOf(accountStore', g)
            orders == accountStore'.accounts[g].prediction.orderHistory
        IN  /\ after = realizedOfOrders(orders)
            /\ IF PredictionSellStep /\ last'.ok /\ last'.guestId = g
               THEN /\ orders[1].type = "SELL"
                    /\ after - before = orders[1].realizedPnl
                    /\ Abs(orders[1].realizedPnl
                           - (orders[1].amount
                              - (investedTotal(predictionLots(accountStore, g))
                                 - investedTotal(predictionLots(accountStore', g)))))
                         <= CostTolerance
               ELSE IF SessionPass
               THEN /\ after - before = realizedOfOrders(newOrders(g))
                    /\ \A k \in 1..Len(newOrders(g)) :
                         /\ newOrders(g)[k].type = "SETTLEMENT"
                         /\ \E i \in 1..Len(predictionLots(accountStore, g)) :
                              LET lot == predictionLots(accountStore, g)[i]
                              IN  /\ lotGone(g, lot)
                                  /\ newOrders(g)[k].marketId = lot.marketId
                                  /\ newOrders(g)[k].realizedPnl
                                       = newOrders(g)[k].amount - lot.investedAmount
               ELSE IF last'.op = "reset" /\ last'.guestId = g
               THEN after = 0 /\ orders = <<>>
               ELSE after = before
    ]_vars

\* C29 witness: after a SELL at a profit and the settlement of a winning
\* lot the accumulator holds both, and the deposit made since is not in it.
C29_Witness ==
  /\ Guest \in DOMAIN accountStore.accounts
  /\ last.op = "deposit" /\ last.ok
  /\ LET orders == accountStore.accounts[Guest].prediction.orderHistory
     IN  /\ \E i \in 1..Len(orders) : orders[i].type = "SELL" /\ orders[i].realizedPnl > 0
         /\ \E i \in 1..Len(orders) : orders[i].type = "SETTLEMENT" /\ orders[i].realizedPnl > 0
         /\ realizedOf(accountStore, Guest) = realizedOfOrders(orders)
         /\ realizedOf(accountStore, Guest) > 0

(***************************************************************************)
(* SpecOnce: DAILY lots that win, the sessions after their settlement,     *)
(* trades and restarts in between.                                         *)
(***************************************************************************)
OncePredictionBodies ==
  { PredictionBody("BUY", "2", "YES", 42000000, 0),      \* wins when DDR5 rises
    PredictionBody("BUY", "4", "NO", 10000000, 0) }      \* wins when DDR4 falls

InitOnce == InitWith({0}, {DEFAULT_MARKET_CHANCES})

NextOnce ==
  \/ \E body \in OncePredictionBodies : PredictionTradeRoute(Guest, body)
  \/ \E halves \in {2, 6} : SkipSessionsCall(Guest, SkipRequest(halves), MaxSessions)
  \/ SkipSessionStep(RisingDraw)
  \/ Restart

SpecOnce == InitOnce /\ [][NextOnce]_vars

\* The SETTLEMENT orders of a guest's order history.
settlementsOf(store, guestId) ==
  IF guestId \in DOMAIN store.accounts
  THEN FilterSeq(store.accounts[guestId].prediction.orderHistory,
                 LAMBDA o : o.type = "SETTLEMENT")
  ELSE <<>>

\* C30: a session pass removes each lot it settles from the open book,
\* credits its payout to the cash balance (kept to the cent) and appends exactly one
\* SETTLEMENT order for it; a lot that has left the book never returns to
\* it; and no other step - a later pass that finds the lot gone, a restart,
\* a trade - adds a SETTLEMENT order or pays anything.
C30_SettledOnce ==
  [][ \A g \in DOMAIN accountStore.accounts :
        LET lots == predictionLots(accountStore, g)
            settled == FilterSeq(lots, LAMBDA p : lotGone(g, p))
            payout(p) ==
              IF p.outcome =
                   (IF pricesData'.currentPrices[MARKET_DEFINITIONS[p.marketId].category]
                         > p.targetPrice THEN "YES" ELSE "NO")
              THEN p.contracts ELSE 0
            nextId == accountStore.accounts[g].prediction.nextPositionId
        IN  /\ \A i \in 1..Len(predictionLots(accountStore', g)) :
                 LET lot == predictionLots(accountStore', g)[i]
                 IN  \/ Len(lotWithId(lots, lot.id)) = 1
                     \/ lot.id >= nextId
            /\ IF SessionPass
               THEN /\ Len(settlementsOf(accountStore', g))
                         = Len(settlementsOf(accountStore, g)) + Len(settled)
                    /\ \A i \in 1..Len(settled) :
                         Len(FilterSeq(newOrders(g),
                                       LAMBDA o : /\ o.type = "SETTLEMENT"
                                                  /\ o.marketId = settled[i].marketId
                                                  /\ o.outcome = settled[i].outcome
                                                  /\ o.contracts = settled[i].contracts
                                                  /\ o.amount = payout(settled[i])))
                           = Len(FilterSeq(settled,
                                           LAMBDA p : /\ p.marketId = settled[i].marketId
                                                      /\ p.outcome = settled[i].outcome
                                                      /\ p.contracts = settled[i].contracts))
                    /\ Abs(100 * (accountStore'.accounts[g].cashBalance
                                  - accountStore.accounts[g].cashBalance)
                           - SumSeq(settled, payout)) <= 50 * Len(settled)
               ELSE /\ settlementsOf(accountStore', g) = settlementsOf(accountStore, g)
                    /\ accountStore'.accounts[g].cashBalance
                         <= accountStore.accounts[g].cashBalance
    ]_vars

\* C30 witness: the lot settled at session 3 has one SETTLEMENT order, a
\* further session has passed, a lot was bought since and the server has
\* restarted.
C30_Witness ==
  /\ last.op = "restart"
  /\ sessionState.skipSessionCount = 4
  /\ Len(settlementsOf(accountStore, Guest)) = 1
  /\ settlementsOf(accountStore, Guest)[1].session = 3
  /\ settlementsOf(accountStore, Guest)[1].amount > 0
  /\ Len(predictionLots(accountStore, Guest)) > 0
  /\ predictionLots(accountStore, Guest)[1].openedSession >= 3

(***************************************************************************)
(* SpecWalk: SELLs that span two lots of one key, next to lots of another  *)
(* market, outcome and ticker.                                             *)
(***************************************************************************)
WalkPredictionBodies ==
  { PredictionBody("BUY", "2", "YES", 42000000, 0),      \* $42: 100 contracts at 0.42
    PredictionBody("BUY", "2", "NO", 29000000, 0),       \* $29: 50 contracts at 0.58
    PredictionBody("BUY", "1", "YES", 64000000, 0),      \* $64: 100 contracts at 0.64
    PredictionBody("SELL", "2", "YES", 0, 1200000),      \* 120 contracts
    PredictionBody("SELL", "2", "YES", 0, 333333) }      \* 33.3333 contracts

WalkSyntheticBodies ==
  { SyntheticBody("BUY", "DDR5", 400000000, 0),          \* $400: 10.507789 units
    SyntheticBody("BUY", "DDR4", 400000000, 0),
    SyntheticBody("SELL", "DDR5", 0, 12000000),          \* 12 units
    SyntheticBody("SELL", "DDR5", 0, 4000000) }          \* 4 units

InitWalk == InitWith({0}, {DEFAULT_MARKET_CHANCES})

NextWalk ==
  \/ \E body \in WalkPredictionBodies : PredictionTradeRoute(Guest, body)
  \/ \E body \in WalkSyntheticBodies : SyntheticTradeRoute(Guest, body)

SpecWalk == InitWalk /\ [][NextWalk]_vars

\* What C31 asks of one book: before and after are the open lots around an
\* accepted SELL, key tells the lots of the sell key, quantity and scale
\* give a lot's quantity and the number of quantity units in one.
walkedInOrder(before, after, key(_), quantity(_), scale) ==
  /\ \A k \in 1..Len(after) : Len(lotWithId(before, after[k].id)) = 1
  /\ \A k \in 1..Len(after) : \A l \in 1..Len(after) : k < l => after[k].id < after[l].id
  /\ \A i \in 1..Len(before) :
       ~key(before[i]) => lotWithId(after, before[i].id) = <<before[i]>>
  /\ \A i \in 1..Len(before) : \A j \in 1..Len(before) :
       (i < j /\ key(before[i]) /\ key(before[j])
        /\ lotWithId(after, before[j].id) # <<before[j]>>)
         => lotWithId(after, before[i].id) = <<>>
  /\ \A k \in 1..Len(after) :
       LET old == lotWithId(before, after[k].id)[1]
       IN  after[k] # old =>
             /\ key(old)
             /\ quantity(after[k]) < quantity(old)
             /\ after[k].investedAmount < old.investedAmount
             /\ Abs(after[k].investedAmount
                    - MulDivRound(after[k].avgEntryPrice, quantity(after[k]), scale))
                  <= CostTolerance + (quantity(after[k]) \div (2 * scale))

\* C31: an accepted SELL leaves every lot outside its sell key (another
\* market or ticker, the opposite outcome) exactly as it was and keeps the
\* book in its order; it touches a later lot of the key only when every
\* earlier lot of the key has left the book; and a lot it consumed in part
\* holds less, with investedAmount equal to avgEntryPrice * quantity up to
\* the rounding of the stored figures.
C31_SellWalk ==
  [][ /\ (PredictionSellStep /\ last'.ok) =>
           walkedInOrder(predictionLots(accountStore, last'.guestId),
                         predictionLots(accountStore', last'.guestId),
                         LAMBDA p : p.marketId = last'.instrument
                                    /\ p.outcome = last'.outcome,
                         LAMBDA p : p.contracts, 10000)
      /\ (SyntheticSellStep /\ last'.ok) =>
           walkedInOrder(syntheticLots(accountStore, last'.guestId),
                         syntheticLots(accountStore', last'.guestId),
                         LAMBDA p : p.ticker = last'.instrument,
                         LAMBDA p : p.units, 1000000)
    ]_vars

\* C31 witness: a SELL of 120 contracts has consumed the first YES lot of
\* market 2 whole and the second in part.
C31_Witness ==
  /\ last.op = "predictionTrade" /\ last.side = "SELL" /\ last.ok
  /\ last.quantity = 1200000 /\ last.total = 2000000
  /\ Len(predictionLots(accountStore, Guest)) = 1
  /\ predictionLots(accountStore, Guest)[1].id = 2
  /\ predictionLots(accountStore, Guest)[1].contracts = 800000

(***************************************************************************)
(* SpecCap: the server has started from a prices file that holds 99        *)
(* entries per ticker, one minute apart, so that the cap of 100 is met     *)
(* and passed by overrides and session passes.                             *)
(***************************************************************************)
MaxManualEntries == 2    \* overrides stop once a history holds this many of them

fullPrices ==
  [currentPrices |-> [t \in Tickers |-> BASE_TICKER_PRICES[t] + 1],
   priceHistory |->
     [t \in Tickers |->
        [i \in 1..(PRICE_HISTORY_CAP - 1) |->
           [price |-> BASE_TICKER_PRICES[t] + (i % 2),
            timestamp |-> [day |-> 0, minute |-> i],
            source |-> "seed"]]]]

manualEntries(history) ==
  Cardinality({i \in 1..Len(history) : history[i].source = "manual"})

InitCap ==
  /\ pricesData = sanitizePricesData(fullPrices)
  /\ chancesData = sanitizeChancesData(bootChances(DEFAULT_MARKET_CHANCES))
  /\ sessionState =
       sanitizeSessionState(
         [skipSessionCount |-> 0, priceToBeat |-> BASE_TICKER_PRICES,
          lastSessionAt |-> [day |-> 0, minute |-> SESSION_SLOTS_MINUTES[1]],
          lastSessionSlotIndex |-> 0], pricesData)
  /\ accountStore = [accounts |-> <<>>]
  /\ disk = [prices |-> pricesData, chances |-> chancesData,
             session |-> sessionState, accounts |-> accountStore]
  /\ batch = NoBatch
  /\ last = NoResult
  /\ client = NoClient

NextCap ==
  \/ \E price20 \in {20 * 38500, 20 * 30000} :
       /\ manualEntries(pricesData.priceHistory["DDR5"]) < MaxManualEntries
       /\ UpdatePriceUpTo("manual", "DDR5", price20, 1, <<300, 300>>,
                          PRICE_HISTORY_CAP + 1)
  \/ SkipSessionsCall(Guest, SkipRequest(2), MaxSessions)
  \/ SkipSessionStep(RisingDraw)
  \/ Restart

SpecCap == InitCap /\ [][NextCap]_vars

\* h2 is h with one entry added at its end, less the oldest entry when h
\* was full.
appendedOne(h, h2) ==
  IF Len(h) < PRICE_HISTORY_CAP
  THEN Len(h2) = Len(h) + 1 /\ SubSeq(h2, 1, Len(h)) = h
  ELSE Len(h2) = Len(h) /\ SubSeq(h2, 1, Len(h) - 1) = SubSeq(h, 2, Len(h))

\* C32: across every step each ticker's history is either the same or the
\* same with one entry added at its end and, if that made 101, without its
\* first entry; every accepted price override adds to one history, every
\* session pass to each; a restart changes no entry; and in the state
\* reached no history is longer than 100 and each current price is the
\* price of its history's last entry.
C32_PriceHistory ==
  [][ LET grown == {t \in Tickers :
                      pricesData'.priceHistory[t] # pricesData.priceHistory[t]}
      IN  /\ \A t \in grown :
                appendedOne(pricesData.priceHistory[t], pricesData'.priceHistory[t])
          /\ (last'.op = "updatePrice" /\ last'.ok) => Cardinality(grown) = 1
          /\ last'.op \in {"skipPass", "skipSessions"} => grown = Tickers
          /\ last'.op \notin {"updatePrice", "skipPass", "skipSessions"} => grown = {}
          /\ \A t \in Tickers :
                /\ Len(pricesData'.priceHistory[t]) <= PRICE_HISTORY_CAP
                /\ pricesData'.currentPrices[t] = LastOf(pricesData'.priceHistory[t]).price
    ]_vars

\* C32 witness: a session pass has pushed the oldest entries out of a full
\* history, and the server has restarted since.
C32_Witness ==
  /\ last.op = "restart"
  /\ \A t \in Tickers :
       /\ Len(pricesData.priceHistory[t]) = PRICE_HISTORY_CAP
       /\ pricesData.priceHistory[t][1].timestamp.minute > 1
       /\ LastOf(pricesData.priceHistory[t]).source # "seed"

(***************************************************************************)
(* SpecTrim: the server starts on accounts files whose prediction order    *)
(* history, newest record first as appendOrderHistory writes it, holds     *)
(* 499, 500 or 501 records; a DAILY lot of the file settles after three    *)
(* sessions.                                                               *)
(***************************************************************************)
TrimAccountFiles ==
  LET sound ==
        [id |-> 1, marketId |-> "2", outcome |-> "YES",
         contracts |-> RawNumber(100000000), avgEntryPrice |-> RawNumber(420000),
         investedAmount |-> RawNumber(42000000),
         targetPrice |-> BASE_TICKER_PRICES["DDR5"], openedSession |-> 0]
      order(id) ==
        [id |-> id, type |-> "BUY", marketId |-> "2", outcome |-> "YES",
         contracts |-> 1000000, price |-> 4200, amount |-> 420000, realizedPnl |-> 0,
         result |-> "", session |-> 0, note |-> -1]
  IN  { [cashBalance |-> RawNumber(10000000),
         prediction |-> [nextPositionId |-> RawNumber(200),
                         nextOrderId |-> RawNumber(100 * (n + 1)),
                         openPositions |-> lots,
                         orderHistory |-> [i \in 1..n |-> order(n + 1 - i)]],
         synthetic |-> [nextPositionId |-> RawNumber(100), nextOrderId |-> RawNumber(100),
                        openPositions |-> <<>>]] :
          n \in {ORDER_HISTORY_CAP - 1, ORDER_HISTORY_CAP, ORDER_HISTORY_CAP + 1},
          lots \in {<<>>, <<sound>>} }

InitTrim == InitWith({0}, {DEFAULT_MARKET_CHANCES})

NextTrim ==
  \/ \E raw \in TrimAccountFiles : LoadAccountFile(raw)
  \/ AccountRoute(Guest)
  \/ \E halves \in {2, 6} : SkipSessionsCall(Guest, SkipRequest(halves), MaxSessions)
  \/ SkipSessionStep(RisingDraw)
  \/ Restart

SpecTrim == InitTrim /\ [][NextTrim]_vars

\* new is old with k records put in front, each with a higher id than any
\* before, cut to the 500 in front.
appendedOrders(old, new, k) ==
  /\ Len(new) = Min(ORDER_HISTORY_CAP, Len(old) + k)
  /\ SubSeq(new, k + 1, Len(new)) = SubSeq(old, 1, Len(new) - k)
  /\ \A i \in 1..k : new[i].id > MaxId(old)

\* C33: a prediction order history never holds more than 500 records, its
\* ids descend from the newest record in front, and the record in front is
\* the last one issued (its id is nextOrderId - 1), so that what a cut
\* leaves out are the oldest records; across a step of a running server or
\* a restart the history is the same or has new records in front, each
\* with an id above every earlier one, and has lost only records at its
\* old end.
C33_OrderHistory ==
  [][ \A g \in DOMAIN accountStore'.accounts :
        LET new == accountStore'.accounts[g].prediction.orderHistory
            old == IF g \in DOMAIN accountStore.accounts
                   THEN accountStore.accounts[g].prediction.orderHistory
                   ELSE <<>>
        IN  /\ Len(new) <= ORDER_HISTORY_CAP
            /\ \A i \in 1..(Len(new) - 1) : new[i].id > new[i + 1].id
            /\ new # <<>> =>
                 new[1].id = accountStore'.accounts[g].prediction.nextOrderId - 1
            /\ last'.op # "load" =>
                 \E k \in 0..MaxLots : appendedOrders(old, new, k)
    ]_vars

\* The slot a session step has landed on is the first of the day: the slot
\* index where the session state has one, else the session count being a
\* multiple of three (the step that resyncs priceToBeat).
landsOnFirstSlot(ss) ==
  IF "lastSessionSlotIndex" \in DOMAIN ss THEN ss.lastSessionSlotIndex = 0
  ELSE ss.skipSessionCount % Len(SESSION_SLOTS_MINUTES) = 0

periodOf(marketId) ==
  IF marketId \in MarketIds THEN MARKET_DEFINITIONS[marketId].period
  ELSE Legacy_MARKET_DEFINITIONS[marketId].period

\* C34: after a session step that lands on slot 0 every DAILY market has
\* chance 50 and the chance history [50]; after a step that lands on slot
\* 1 or 2 a DAILY market still has the point it had before, followed by
\* the chance of this step; and in every session step a MONTHLY market's
\* history is its old history with the chance of this step added, cut to
\* 160 points.
C34_DailyReset ==
  [][ SessionPass =>
        \A m \in DOMAIN chancesData'.currentChances :
          LET old == chancesData.chanceHistory[m]
              new == chancesData'.chanceHistory[m]
              chance == chancesData'.currentChances[m]
          IN  IF periodOf(m) = "MONTHLY"
              THEN new = SliceLast(Append(old, chance), CHANCE_HISTORY_CAP)
              ELSE IF landsOnFirstSlot(sessionState')
              THEN chance = NEUTRAL_CHANCE /\ new = <<NEUTRAL_CHANCE>>
              ELSE /\ Len(new) >= 2
                   /\ new[Len(new) - 1] = LastOf(old)
                   /\ LastOf(new) = chance
    ]_vars

(***************************************************************************)
(* SpecDrift: price overrides at 10:00 and at 14:00 of the wall clock,     *)
(* session skips, reconciliation of the session clock, restarts.           *)
(***************************************************************************)
DriftClocks == { NOW, [day |-> 0, minute |-> 14 * 60] }

InitDrift == InitWith({0}, {DEFAULT_MARKET_CHANCES})

NextDrift ==
  \/ \E at \in DriftClocks :
       UpdatePriceAt("manual-update", "DDR5", ClockPrice, 1, <<599, 200>>,
                     MaxPriceEntries, at)
  \/ \E halves \in {2, 4} : SkipSessionsCall(Guest, SkipRequest(halves), MaxSessions)
  \/ SkipSessionStep(RisingDraw)
  \/ ReconcileRoute
  \/ Restart

SpecDrift == InitDrift /\ [][NextDrift]_vars

\* C35: a reconcile request changes neither the session count, priceToBeat,
\* the price and chance ledgers nor the accounts; a reconcile request that
\* follows another changes nothing at all; and the slot it sets is one
\* whose time of day is nearest, in minutes, to the time of day of the
\* newest price entry.
C35_Reconcile ==
  [][ last'.op = "reconcile" =>
        /\ sessionState'.skipSessionCount = sessionState.skipSessionCount
        /\ sessionState'.priceToBeat = sessionState.priceToBeat
        /\ pricesData' = pricesData
        /\ chancesData' = chancesData
        /\ accountStore' = accountStore
        /\ last.op = "reconcile" => sessionState' = sessionState
        /\ LET minutes == getLatestHistoryTimestamp(pricesData).minute
               chosen == SESSION_SLOTS_MINUTES[sessionState'.lastSessionSlotIndex + 1]
           IN  \A i \in 1..Len(SESSION_SLOTS_MINUTES) :
                 Abs(chosen - minutes) <= Abs(SESSION_SLOTS_MINUTES[i] - minutes)
    ]_vars

(***************************************************************************)
(* SpecRepair: the server starts on prices files that are missing, cut     *)
(* short, hold entries without a number or prices outside the bands; then  *)
(* it skips sessions and serves the account.                               *)
(***************************************************************************)
\* buildDefaultPricesData()
buildDefaultPricesData ==
  [currentPrices |-> [t \in Tickers |-> LastOf(generateSeedHistory(t)).price],
   priceHistory |-> [t \in Tickers |-> generateSeedHistory(t)]]

\* sanitizePricesData(raw) on any file: raw is [present, priceHistory], the
\* price of an entry a number of the file (with at most three decimals) or
\* no number; entries without a number are skipped before the clamps.
sanitizePricesFile(raw) ==
  IF ~raw.present THEN buildDefaultPricesData
  ELSE LET cleanedOf(ticker) ==
             LET base == BASE_TICKER_PRICES[ticker]
                 sourceEntries == SliceLast(raw.priceHistory[ticker], PRICE_HISTORY_CAP)
                 numeric == FilterSeq(sourceEntries, LAMBDA entry : entry.price.finite)
                 prices == [i \in 1..Len(numeric) |->
                              [numeric[i] EXCEPT !.price = @.hundredths \div 100]]
                 cleaned == cleanedEntries(prices, 1, Len(prices), base, base)
             IN  IF Len(cleaned) < 2 THEN generateSeedHistory(ticker) ELSE cleaned
           history == [t \in Tickers |-> cleanedOf(t)]
       IN  [currentPrices |-> [t \in Tickers |-> LastOf(history[t]).price],
            priceHistory |-> history]

\* The process starts on the prices file raw; the other files are those
\* the server saved.  The sanitized ledger is saved at once (part_004:1912).
LoadPricesFile(raw) ==
  \E pd \in {sanitizePricesFile(raw)} :
  \E cd \in {sanitizeChancesData(disk.chances)} :
  \E ss \in {sanitizeSessionState(disk.session, pd)} :
  \E store \in {loadAccountStore(disk.accounts, pd, cd)} :
      /\ ~batch.active
      /\ pricesData' = pd
      /\ chancesData' = cd
      /\ sessionState' = ss
      /\ accountStore' = store
      /\ disk' = [prices |-> pd, chances |-> cd, session |-> ss, accounts |-> store]
      /\ last' = [NoResult EXCEPT !.op = "load"]
      /\ UNCHANGED batch
      /\ UNCHANGED client

RawPricesFiles ==
  LET entry(price) ==
        [price |-> price, timestamp |-> [day |-> 0, minute |-> SESSION_SLOTS_MINUTES[1]],
         source |-> "manual"]
      sound == <<entry(RawNumber(7840900)), entry(RawNumber(7840900))>>
      histories ==
        { <<>>,                                                   \* cut short
          <<entry(RawNumber(3806700))>>,
          <<entry(NotANumber), entry(RawNumber(3806700)), entry(NotANumber)>>,
          <<entry(NotANumber), entry(RawNumber(3806700)), entry(NotANumber),
            entry(RawNumber(3850000))>>,
          <<entry(RawNumber(3806700)), entry(RawNumber(3901900)), entry(RawNumber(0))>>,
          <<entry(RawNumber(3806700)), entry(RawNumber(10000000)),
            entry(RawNumber(3806700))>> }
  IN  { [present |-> FALSE, priceHistory |-> [t \in Tickers |-> <<>>]] }
        \cup { [present |-> TRUE,
                priceHistory |-> [t \in Tickers |-> IF t = "DDR5" THEN h ELSE sound]] :
                 h \in histories }

InitRepair == InitWith({0}, {DEFAULT_MARKET_CHANCES})

NextRepair ==
  \/ \E raw \in RawPricesFiles : LoadPricesFile(raw)
  \/ AccountRoute(Guest)
  \/ \E halves \in {2, 4} : SkipSessionsCall(Guest, SkipRequest(halves), MaxSessions)
  \/ SkipSessionStep(RisingDraw)

SpecRepair == InitRepair /\ [][NextRepair]_vars

\* C36: after a start on any prices file every ticker has a history of at
\* least two entries, each within 5 % of the base price and within 5 % of
\* the entry before it, and the prices file holds that ledger.
C36_LoadRepairs ==
  [][ last'.op = "load" =>
        /\ disk'.prices = pricesData'
        /\ \A t \in Tickers :
             LET history == pricesData'.priceHistory[t]
                 base == BASE_TICKER_PRICES[t]
             IN  /\ Len(history) >= 2
                 /\ \A i \in 1..Len(history) :
                      /\ 19 * base <= 20 * history[i].price
                      /\ 20 * history[i].price <= 21 * base
                      /\ i > 1 =>
                           /\ 19 * history[i - 1].price <= 20 * history[i].price
                           /\ 20 * history[i].price <= 21 * history[i - 1].price
    ]_vars

\* The quantity the guest owns under the sell key after the step.
remainingContracts ==
  SumSeq(FilterSeq(predictionLots(accountStore', last'.guestId),
                   LAMBDA p : p.marketId = last'.instrument /\ p.outcome = last'.outcome),
         LAMBDA p : p.contracts)

remainingUnits ==
  SumSeq(FilterSeq(syntheticLots(accountStore', last'.guestId),
                   LAMBDA p : p.ticker = last'.instrument),
         LAMBDA p : p.units)

\* C37: for every accepted SELL the quantity sold, which the proceeds pay
\* for, plus the quantity the lots of the sell key hold afterwards is the
\* quantity they held before, to the last decimal kept.
C37_QuantityConserved ==
  [][ /\ (PredictionSellStep /\ last'.ok) =>
           Abs(ownedContracts - remainingContracts - last'.sold) <= 1
      /\ (SyntheticSellStep /\ last'.ok) =>
           Abs(ownedUnits - remainingUnits - last'.sold) <= 1
    ]_vars

(***************************************************************************)
(* SpecSpend: the server of SyntheticTradeCard.tsx takes prediction        *)
(* trades, among them a BUY for the whole opening balance, deposits and    *)
(* reads of the account.                                                   *)
(***************************************************************************)
Legacy_SELL_EPSILON == 0       \* 0.000001 contracts: less than one unit of 1e-4 contracts

\* The forEach of the SELL branch (SyntheticTradeCard.tsx:1201-1230).
Legacy_consumePredictionLots(positions, marketId, outcome, targetContracts) ==
  LET walk[i \in 0..Len(positions)] ==
        IF i = 0
        THEN [next |-> <<>>, remaining |-> targetContracts, soldContracts |-> 0,
              costWhole |-> 0, costNum |-> 0, costDen |-> 1]
        ELSE
          LET a == walk[i - 1]
              position == positions[i]
          IN  IF a.remaining <= 0 \/ position.marketId # marketId
                 \/ position.outcome # outcome
              THEN [a EXCEPT !.next = Append(@, position)]
              ELSE
                LET used == Min(a.remaining, position.contracts)
                    costPortion == MulDiv(position.investedAmount, used, position.contracts)
                    leftContracts == position.contracts - used
                    leftInvested ==
                      MulDivRound(position.investedAmount, leftContracts, position.contracts)
                    kept == [position EXCEPT
                               !.contracts = leftContracts,
                               !.investedAmount = leftInvested,
                               !.avgEntryPrice =
                                 MulDivRound(position.investedAmount, 10000,
                                             position.contracts)]
                IN  [next |-> IF leftContracts > Legacy_SELL_EPSILON
                              THEN Append(a.next, kept) ELSE a.next,
                     remaining |-> a.remaining - used,
                     soldContracts |-> a.soldContracts + used,
                     costWhole |-> a.costWhole + costPortion[1],
                     costNum |-> IF costPortion[2] > 0 THEN costPortion[2] ELSE a.costNum,
                     costDen |-> IF costPortion[2] > 0 THEN position.contracts
                                 ELSE a.costDen]
  IN  walk[Len(positions)]

\* executePredictionTrade of SyntheticTradeCard.tsx
Legacy_executePredictionTrade(account, side, marketId, outcome, amount, contracts, ss, pd, cd) ==
  IF marketId \notin Legacy_MarketIds THEN rejected(account, "Invalid market id")
  ELSE IF outcome \notin {"YES", "NO"} THEN rejected(account, "Invalid outcome")
  ELSE
    LET market == Legacy_MARKET_DEFINITIONS[marketId]
        price == getCurrentContractPrice(cd, marketId, outcome)
        prediction == account.prediction
    IN
    IF side = "BUY" THEN
      IF amount <= 0 THEN rejected(account, "Invalid buy amount")
      ELSE IF exceedsCash(amount, account.cashBalance)
      THEN rejected(account, "Insufficient cash balance")
      ELSE
        LET boughtContracts == MulDivRound(amount, 100, price)
            toBeat == IF ss.priceToBeat[market.category] # 0
                      THEN ss.priceToBeat[market.category]
                      ELSE pd.currentPrices[market.category]
            position == [id |-> prediction.nextPositionId,
                         marketId |-> marketId,
                         outcome |-> outcome,
                         contracts |-> boughtContracts,
                         avgEntryPrice |-> price,
                         investedAmount |-> RoundDiv(amount, 100),
                         targetPrice |-> toBeat,
                         openedSession |-> ss.skipSessionCount]
            order == [id |-> 0, type |-> "BUY", marketId |-> marketId,
                      outcome |-> outcome, contracts |-> boughtContracts,
                      price |-> price, amount |-> RoundDiv(amount, 100),
                      realizedPnl |-> 0, result |-> "",
                      session |-> ss.skipSessionCount, note |-> -1]
            bought == [account EXCEPT
                         !.prediction.nextPositionId = @ + 1,
                         !.prediction.openPositions = Append(@, position),
                         !.cashBalance = cashAfterDebit(@, amount)]
        IN  accepted(Legacy_recalculatePortfolioPnL(appendOrderHistory(bought, order), cd),
                     0, 0, 0, 0, 1)
    ELSE IF side = "SELL" THEN
      IF contracts <= 0 THEN rejected(account, "Invalid contracts to sell")
      ELSE
        LET total == matchingTotalContracts(account, marketId, outcome)
        IN
        IF contracts > total + Legacy_SELL_EPSILON
        THEN rejected(account, "Not enough contracts to sell")
        ELSE
          LET w == Legacy_consumePredictionLots(prediction.openPositions, marketId, outcome,
                                         Min(contracts, total))
              proceeds == MulDiv(w.soldContracts, price, 10000)
              realizedPnl == proceeds[1] - w.costWhole
              order == [id |-> 0, type |-> "SELL", marketId |-> marketId,
                        outcome |-> outcome, contracts |-> w.soldContracts,
                        price |-> price,
                        amount |-> proceeds[1] + (IF 2 * proceeds[2] >= 10000 THEN 1 ELSE 0),
                        realizedPnl |->
                          RoundMixed(realizedPnl, proceeds[2], 10000, w.costNum, w.costDen),
                        result |-> "",
                        session |-> ss.skipSessionCount, note |-> -1]
              sold == [account EXCEPT
                         !.prediction.openPositions = w.next,
                         !.cashBalance = cashAfterCredit(@, proceeds[1]),
                         !.prediction.realizedPnL =
                           RoundMixed(@ + realizedPnl, proceeds[2], 10000,
                                      w.costNum, w.costDen)]
          IN  IF w.soldContracts <= 0 \/ w.remaining > Legacy_SELL_EPSILON
              THEN rejected(account, "Not enough contracts to sell")
              ELSE accepted(Legacy_recalculatePortfolioPnL(appendOrderHistory(sold, order), cd),
                            total, w.soldContracts, w.costWhole, w.costNum, w.costDen)
    ELSE rejected(account, "Invalid side")

\* POST /api/prediction/trade of SyntheticTradeCard.tsx
Legacy_PredictionTradeRoute(guestId, body) ==
  \E store \in {Legacy_getOrCreateGuestAccount(accountStore, guestId, chancesData)} :
  \E side \in {IF body.side = "SELL" THEN "SELL" ELSE "BUY"} :
  \E outcome \in {IF body.outcome = "NO" THEN "NO" ELSE "YES"} :
  \E result \in {Legacy_executePredictionTrade(store.accounts[guestId], side, body.marketId,
                                        outcome, body.amount, body.contracts,
                                        sessionState, pricesData, chancesData)} :
  \E final \in {[accounts |-> [store.accounts EXCEPT ![guestId] = result.account]]} :
    /\ ~batch.active
    /\ side = "BUY" => store.accounts[guestId].prediction.nextPositionId <= MaxLots
    /\ Len(store.accounts[guestId].prediction.orderHistory) < MaxOrders
    /\ accountStore' = final
    /\ disk' = [disk EXCEPT !.accounts = savedAccounts(store, guestId, final, result.ok)]
    /\ last' = [NoResult EXCEPT
                  !.op = "predictionTrade", !.guestId = guestId,
                  !.ok = result.ok, !.error = result.error,
                  !.created = createdAccount(accountStore, guestId),
                  !.side = side, !.instrument = body.marketId, !.outcome = outcome,
                  !.requestSide = body.side, !.requestOutcome = body.outcome,
                  !.amount = body.amount, !.quantity = body.contracts,
                  !.cashBefore = store.accounts[guestId].cashBalance,
                  !.total = result.total, !.sold = result.sold,
                  !.costWhole = result.costWhole, !.costNum = result.costNum,
                  !.costDen = result.costDen]
    /\ UNCHANGED <<pricesData, chancesData, sessionState, batch>>
    /\ UNCHANGED client

SpendPredictionBodies ==
  { PredictionBody("BUY", "2", "YES", 1240000000, 0),    \* the whole opening balance
    PredictionBody("BUY", "2", "YES", 620000000, 0),
    PredictionBody("SELL", "2", "YES", 0, 10000000) }    \* 1000 contracts

NextSpend ==
  \/ \E body \in SpendPredictionBodies : Legacy_PredictionTradeRoute(Guest, body)
  \/ Legacy_AccountRoute(Guest)
  \/ Legacy_DepositRoute(Guest, 250000000)
  \/ Legacy_Restart

SpecSpend == InitLegacy /\ [][NextSpend]_vars

\* C38: GET /api/account for a guest who has an account leaves the
\* account's cash balance, open lots and id counters as they were, at
\* every balance, 0 included.
C38_RereadIsNoOp ==
  [][ (last'.op = "account" /\ ~last'.created) =>
        LET before == accountStore.accounts[last'.guestId]
            after == accountStore'.accounts[last'.guestId]
            books == {"prediction", "synthetic"} \cap DOMAIN before
        IN  /\ after.cashBalance = before.cashBalance
            /\ \A book \in books :
                 /\ after[book].openPositions = before[book].openPositions
                 /\ after[book].nextPositionId = before[book].nextPositionId
                 /\ after[book].nextOrderId = before[book].nextOrderId
    ]_vars

(***************************************************************************)
(* SpecRace: one browser and the server.  The browser's "skip one          *)
(* session" action emits "skipSessionsAll" with a timeout of one second    *)
(* on the acknowledgment and, when the timeout fires, posts                *)
(* /api/sessions/skip; messages take any time to arrive.  A new action     *)
(* starts only when the last one is over and no message is in flight.      *)
(***************************************************************************)
\* skipOneSessionForAll(): with a connected socket the request is emitted,
\* else the fallback posts at once.
ClientSkipOneSession(connected) ==
  /\ client.pc \in {"idle", "done"}
  /\ ~client.emitted /\ ~client.acked /\ ~client.posted /\ ~client.answered
  /\ sessionState.skipSessionCount < MaxSessions
  /\ client' = [NoClient EXCEPT
                  !.pc = IF connected THEN "awaitAck" ELSE "awaitResponse",
                  !.skipAtStart = sessionState.skipSessionCount,
                  !.emitted = connected, !.posted = ~connected]
  /\ UNCHANGED <<pricesData, chancesData, sessionState, accountStore, disk, batch, last>>

\* The timeout of socket.timeout(1000) fires before the acknowledgment has
\* come: the callback gets err and calls fallbackSingleSessionAll().
ClientAckTimeout ==
  /\ client.pc = "awaitAck"
  /\ client' = [client EXCEPT !.pc = "awaitResponse", !.posted = TRUE]
  /\ UNCHANGED <<pricesData, chancesData, sessionState, accountStore, disk, batch, last>>

\* The acknowledgment arrives: in time it ends the action, after the
\* timeout it is dropped.
ClientAckArrives ==
  /\ client.acked
  /\ client' = [client EXCEPT !.acked = FALSE,
                              !.pc = IF @ = "awaitAck" THEN "done" ELSE @]
  /\ UNCHANGED <<pricesData, chancesData, sessionState, accountStore, disk, batch, last>>

\* The response of POST /api/sessions/skip arrives.
ClientResponseArrives ==
  /\ client.answered
  /\ client' = [client EXCEPT !.answered = FALSE, !.pc = "done"]
  /\ UNCHANGED <<pricesData, chancesData, sessionState, accountStore, disk, batch, last>>

\* What both skip handlers do with {count: 1}: the actor's account is looked
\* up, runSkipSessions(1) makes one pass and saves the session state, the
\* snapshot is broadcast.
runOneSessionFor(guestId, draw) ==
  \E store \in {getOrCreateGuestAccount(accountStore, guestId, pricesData, chancesData)} :
  \E next \in {skipOneSession(pricesData, chancesData, sessionState, store, draw)} :
      /\ ~batch.active
      /\ pricesData' = next.pd
      /\ chancesData' = next.cd
      /\ sessionState' = next.ss
      /\ accountStore' = next.store
      /\ disk' = [prices |-> next.pd, chances |-> next.cd, accounts |-> next.store,
                  session |-> next.ss]
      /\ last' = [NoResult EXCEPT !.op = "skipSessions", !.guestId = guestId,
                    !.created = createdAccount(accountStore, guestId),
                    !.count2 = 2, !.skipBefore = sessionState.skipSessionCount,
                    !.broadcast = <<buildLivePayload(next.pd, next.cd, next.ss)>>]
      /\ UNCHANGED batch

\* socket "skipSessionsAll" with its acknowledgment
SocketSkipSessionsAll(draw) ==
  /\ client.emitted
  /\ runOneSessionFor(Guest, draw)
  /\ client' = [client EXCEPT !.emitted = FALSE, !.acked = TRUE]

\* POST /api/sessions/skip with its response
PostSessionsSkip(draw) ==
  /\ client.posted
  /\ runOneSessionFor(Guest, draw)
  /\ client' = [client EXCEPT !.posted = FALSE, !.answered = TRUE]

InitRace == InitWith({0}, {DEFAULT_MARKET_CHANCES})

NextRace ==
  \/ \E connected \in BOOLEAN : ClientSkipOneSession(connected)
  \/ ClientAckTimeout
  \/ ClientAckArrives
  \/ ClientResponseArrives
  \/ \E draw \in SettleDraws : SocketSkipSessionsAll(draw)
  \/ \E draw \in SettleDraws : PostSessionsSkip(draw)

SpecRace == InitRace /\ [][NextRace]_vars

\* C39: from the start of a "skip one session" action of the browser to
\* the start of its next one the session count rises by at most one.
C39_OneSessionPerAction ==
  client.pc # "idle" =>
    sessionState.skipSessionCount - client.skipAtStart <= 1

\* C40: the time of day of lastSessionAt is the time of the slot that
\* lastSessionSlotIndex names, and lastSessionSlotIndex is 0, 1 or 2.
C40_ClockOnSlot ==
  /\ sessionState.lastSessionSlotIndex \in 0..2
  /\ sessionState.lastSessionAt.minute =
       SESSION_SLOTS_MINUTES[sessionState.lastSessionSlotIndex + 1]

\* A reconcile request, after a session skip and with a newest price entry
\* stamped at 14:00, has moved the session clock back to the first slot.
C40_Witness ==
  /\ last.op = "reconcile"
  /\ sessionState.skipSessionCount >= 1
  /\ getLatestHistoryTimestamp(pricesData).minute = 14 * 60
  /\ sessionState.lastSessionAt = [day |-> 0, minute |-> 8 * 60 + 30]

====
